---- MODULE Spec2Model ----
(***************************************************************************)
(* Model of the Rust+ connection manager of src/src/rustplus/index.js:     *)
(* one RustPlusConnection (the Session), the transport handles it creates, *)
(* the reconnect timers it schedules, and the entity-changed classifier.   *)
(*                                                                         *)
(* JavaScript runs every handler to completion, so each action below is    *)
(* one whole handler.  Handlers are written as pure operators on a "world" *)
(* record w (the object's fields plus the transport handles, the pending   *)
(* timeouts and what the handler emitted so far); an action applies one    *)
(* handler to the current world and stores the result.                     *)
(***************************************************************************)
EXTENDS Integers, Sequences, FiniteSets, TLC

VARIABLES
    conn,        \* the RustPlusConnection object's fields
    handles,     \* transport side: state of every RustPlus client created
    timers,      \* runtime side: the setTimeout handles that are pending
    subscribers, \* which listeners are attached to the Session
    emitted,     \* events emitted by the last handler, in order
    lastOp,      \* which handler ran last, and how it ended
    hist,        \* history variables used to state the properties
    poller,      \* the map poller: pollerMap and the state of every run
    bridge,      \* the alert bridge wired onto the Session
    registry,    \* the connections map, for the address of the Session
    sent,        \* team-chat messages sent by the last handler, in order
    peer         \* the Session of another address, as the two maps hold it

vars ==
    <<conn, handles, timers, subscribers, emitted, lastOp, hist, poller, bridge,
      registry, sent, peer>>

----------------------------------------------------------------------------
(* Bounds of the model *)

MaxHandles == 2      \* transport handles that may be live at the same time
MaxTimers == 2       \* timeouts that may be pending at the same time
MaxRetriesCfg == 2   \* largest configured maxRetries
MaxAttempt == 3      \* cap of the counter when maxRetries = 0 (no ceiling)
MaxRuns == 1         \* poller runs whose callbacks may still fire
MaxPending == 2      \* snapshot requests of one run in flight on one handle
MaxSessions == 3     \* Sessions made for the address

(* Program constants *)

ENTITY_SWITCH == 1
ENTITY_ALARM == 2
ENTITY_STORAGE_MONITOR == 3
NOT_CACHED == 0                     \* Map.get(...) === undefined
Entities == {77, 5001}
initialDelayMs == 5000
backoffMultiplierNum == 3      \* backoffMultiplier 1.5 = 3/2
backoffMultiplierDen == 2
maxDelayMs == 60000

Handles == 1..MaxHandles
TimerIds == 1..MaxTimers
NULL == 0

(* Optional JavaScript values (null / undefined, or a value) are sequences *)
(* of length 0 or 1.                                                       *)
None == <<>>
Some(x) == <<x>>

Min(S) == CHOOSE x \in S : \A y \in S : x <= y

RECURSIVE Pow(_, _)
Pow(b, e) == IF e = 0 THEN 1 ELSE b * Pow(b, e - 1)

----------------------------------------------------------------------------
(* Addresses and map keys.  The Session modelled in full is the one of     *)
(* AddrA; AddrB is another server on the same host.  The key of both maps  *)
(* is the text ip:port, which names the pair: a port is a number, so the   *)
(* text after the last colon is the port and the text before it the ip.    *)

AddrA == [ip |-> "10.0.0.1", port |-> 28082]
AddrB == [ip |-> "10.0.0.1", port |-> 28083]

(* Variant: the key is the ip alone *)
connectionKey_IpOnly(ip, port) == <<ip>>

(* _connectionKey of index.js *)
connectionKey(ip, port) == <<ip, port>>

(* _key of mapPoller.js *)
key(ip, port) == <<ip, port>>

(* The Session of AddrB as the maps and the runtime hold it: its entry in  *)
(* connections, whether disconnect() was called on it, its entry in        *)
(* pollerMap with the interval of that state, its entity-type cache and    *)
(* the kinds whose timer is active.                                        *)
NoPeer ==
    [registered |-> FALSE, disconnected |-> FALSE, polled |-> FALSE,
     interval |-> FALSE, entityTypeCache |-> [e \in Entities |-> NOT_CACHED],
     activeTimers |-> {}]

(* connections.get(k) is the Session of AddrB; pollerMap.get(k) is its     *)
(* poller state                                                            *)
peerHeld(w, k) == w.peer.registered /\ k = connectionKey(AddrB.ip, AddrB.port)

peerPolled(w, k) == w.peer.polled /\ k = key(AddrB.ip, AddrB.port)

----------------------------------------------------------------------------
(* Normalized events *)

EvConnected == [type |-> "connected"]
EvDisconnected(i) == [type |-> "disconnected", intentional |-> i]
EvReconnecting(a, d) == [type |-> "reconnecting", attempt |-> a, delayMs |-> d]
EvReconnectFailed(a) == [type |-> "reconnectFailed", attempts |-> a]
EvError == [type |-> "error"]
EvSwitchChanged(id, v) == [type |-> "switchChanged", entityId |-> id, value |-> v]
EvAlarmTriggered(id) == [type |-> "alarmTriggered", entityId |-> id]
EvStorageUpdated(id, items, cap) ==
    [type |-> "storageUpdated", entityId |-> id, items |-> items, capacity |-> cap]

----------------------------------------------------------------------------
(* Alert bridge (src/src/rustplus/broadcaster.js): the listeners that      *)
(* wireBroadcasters attaches to the Session for 'alarmTriggered' and       *)
(* 'storageUpdated'.                                                       *)

(* STORAGE_FULL_THRESHOLD = 0.9 = 9/10 *)
thresholdNum == 9
thresholdDen == 10
cellSize == 150                \* units of one grid cell
CHAR_A == 65                   \* the code unit of "A"

(* client.sendTeamMessage(text); w.sendThrows: the call throws *)
sendTeamMessage(w, text) ==
    [w EXCEPT !.sent = Append(@, [text |-> text, failed |-> w.sendThrows])]

(* String(entityId) *)
RawName(entityId) == [raw |-> TRUE, of |-> entityId]

(* The name column of the devices row of the entity *)
RowName(entityId) == [raw |-> FALSE, of |-> entityId]

(* The outcomes of the lookup in the devices table: a row with a name, no  *)
(* row (or an empty name), or an exception of the database.                *)
LookupOutcomes == {"named", "unnamed", "throws"}

(* Variant: no try/catch around the lookup *)
getDeviceName_NoCatch(w, entityId) ==
    [threw |-> w.db = "throws",
     name |-> IF w.db = "named" THEN RowName(entityId) ELSE RawName(entityId)]

(* getDeviceName: the name of the row, or String(entityId) when there is   *)
(* no row, no name, or the lookup throws (the catch logs and falls back)   *)
getDeviceName(w, entityId) ==
    [threw |-> FALSE,
     name |-> IF w.db = "named" THEN RowName(entityId) ELSE RawName(entityId)]

AlarmText(name) == [alert |-> "alarm", name |-> name, items |-> 0, capacity |-> 0]
AlmostFullText(name, n, capacity) ==
    [alert |-> "almostFull", name |-> name, items |-> n, capacity |-> capacity]

(* safeSendTeamMessage of the bridge; the catch logs a failing send *)
safeSendTeamMessage(w, text) ==
    IF ~w.c.isConnected THEN w
    ELSE IF w.c.rustplus = NULL THEN w
    ELSE sendTeamMessage(w, text)

(* The 'alarmTriggered' listener *)
onAlarmTriggered(w, payload) ==
    LET name == getDeviceName(w, payload.entityId)
    IN IF name.threw THEN [w EXCEPT !.threw = TRUE]
       ELSE safeSendTeamMessage(w, AlarmText(name.name))

(* Variant: the threshold itself does not count as almost full *)
isAboveThreshold_Strict(n, capacity) ==
    n * thresholdDen > capacity * thresholdNum

(* fillRatio >= STORAGE_FULL_THRESHOLD for capacity > 0: n / capacity and  *)
(* 0.9 are compared as doubles; for integers n and capacity the quotient   *)
(* is at least a tenth of 1/capacity away from 0.9 unless it equals it, so *)
(* the comparison agrees with the exact one.                               *)
isAboveThreshold(n, capacity) ==
    n * thresholdDen >= capacity * thresholdNum

(* Variant: the table is written only when an alert is due *)
updateStorageFlag_OnlyWhenAlert(w, entityId, wasAbove, isAboveNow) ==
    IF isAboveNow /\ ~wasAbove
    THEN [w EXCEPT !.bridge.storageAboveThreshold[entityId] = Some(isAboveNow)]
    ELSE w

(* storageAboveThreshold.set(entityKey, isAboveNow) *)
updateStorageFlag(w, entityId, wasAbove, isAboveNow) ==
    [w EXCEPT !.bridge.storageAboveThreshold[entityId] = Some(isAboveNow)]

(* The 'storageUpdated' listener *)
onStorageUpdated(w, payload) ==
    IF payload.capacity <= 0 THEN w
    ELSE LET wasAbove == w.bridge.storageAboveThreshold[payload.entityId] = Some(TRUE)
             isAboveNow == isAboveThreshold(Len(payload.items), payload.capacity)
             w1 == updateStorageFlag(w, payload.entityId, wasAbove, isAboveNow)
             name == getDeviceName(w1, payload.entityId)
         IN IF isAboveNow /\ ~wasAbove
            THEN IF name.threw THEN [w1 EXCEPT !.threw = TRUE]
                 ELSE safeSendTeamMessage(w1,
                          AlmostFullText(name.name, Len(payload.items),
                                         payload.capacity))
            ELSE w1

(* The listeners of the bridge, for an event of the Session *)
bridgeListeners(w, ev) ==
    IF ev.type = "alarmTriggered" THEN onAlarmTriggered(w, ev)
    ELSE IF ev.type = "storageUpdated" THEN onStorageUpdated(w, ev)
    ELSE w

(* Variant: no _broadcastersWired guard, every call attaches listeners *)
wireBroadcasters_NoGuard(w) ==
    [w EXCEPT !.bridge.wired = TRUE, !.bridge.listeners = @ + 1]

(* wireBroadcasters: _broadcastersWired guards the two connection.on calls *)
wireBroadcasters(w) ==
    IF w.bridge.wired THEN w
    ELSE [w EXCEPT !.bridge.wired = TRUE, !.bridge.listeners = @ + 1]

(* The listeners of the bridge run once for every time they were attached; *)
(* an exception of one stops the delivery                                  *)
RECURSIVE runBridgeListeners(_, _, _)
runBridgeListeners(w, ev, n) ==
    IF n = 0 \/ w.threw THEN w
    ELSE runBridgeListeners(bridgeListeners(w, ev), ev, n - 1)

----------------------------------------------------------------------------
(* EventEmitter.emit: every listener of the event runs synchronously; an   *)
(* exception raised by a listener propagates out of emit().  An 'error'    *)
(* event without any listener makes emit() itself throw.  The listeners of *)
(* the bridge are attached by createConnection, before any other listener  *)
(* of their events.                                                        *)

emit(w, ev) ==
    LET w1 == runBridgeListeners(w, ev, w.bridge.listeners)
    IN [w1 EXCEPT !.emitted = Append(@, ev),
                  !.threw = \/ w1.threw
                            \/ ev.type \in w.subs.throws
                            \/ (ev.type = "error" /\ ~w.subs.error)]

(* Sequencing inside a handler: the statements after an emit() run only if *)
(* no exception is propagating (IF w.threw THEN w ELSE ...).               *)

(* Variant: the write is not wrapped in try/catch *)
safeLog_NoCatch(w) ==
    IF w.logThrows THEN [w EXCEPT !.logFailed = TRUE, !.threw = TRUE] ELSE w

(* safeLog: logEvent writes the event_log row; w.logThrows: the write (or  *)
(* JSON.stringify) throws, which the catch logs on the console             *)
safeLog(w) ==
    IF w.logThrows THEN [w EXCEPT !.logFailed = TRUE] ELSE w

(* safeLog(...); this.emit(...) *)
logAndEmit(w, ev) ==
    LET w1 == safeLog(w) IN IF w1.threw THEN w1 ELSE emit(w1, ev)

(* _clearReconnectTimer *)
clearReconnectTimer(w) ==
    IF w.c.reconnectTimer # NULL
    THEN [w EXCEPT !.timers = @ \ {w.c.reconnectTimer},
                   !.c.reconnectTimer = NULL]
    ELSE w

(* Variant: the delay is computed after the counter has gone up *)
getReconnectDelay_PostIncrement(c) ==
    LET num == c.initialDelayMs * Pow(backoffMultiplierNum, c.reconnectAttempt + 1)
        den == Pow(backoffMultiplierDen, c.reconnectAttempt + 1)
    IN IF num <= c.maxDelayMs * den
       THEN [num |-> num, den |-> den]
       ELSE [num |-> c.maxDelayMs, den |-> 1]

(* _getReconnectDelay: min(_initialDelayMs * backoffMultiplier^attempt,    *)
(* _maxDelayMs), as an exact fraction num/den of milliseconds; c is this.  *)
getReconnectDelay(c) ==
    LET num == c.initialDelayMs * Pow(backoffMultiplierNum, c.reconnectAttempt)
        den == Pow(backoffMultiplierDen, c.reconnectAttempt)
    IN IF num <= c.maxDelayMs * den
       THEN [num |-> num, den |-> den]
       ELSE [num |-> c.maxDelayMs, den |-> 1]

(* setTimeout(callback, delayMs): a fresh pending timeout, recorded in     *)
(* this._reconnectTimer.  The previous value of the field is overwritten,  *)
(* not cleared.                                                            *)
setReconnectTimeout(w) ==
    LET free == TimerIds \ w.timers
    IN IF free = {}
       THEN [w EXCEPT !.overflow = TRUE]
       ELSE [w EXCEPT !.timers = @ \cup {Min(free)},
                      !.c.reconnectTimer = Min(free),
                      !.scheduled = TRUE]

(* Variant: the ceiling is tested as "exceeded" instead of "reached" *)
retryCeilingHit_Exceeded(c) ==
    c.maxRetries > 0 /\ c.reconnectAttempt > c.maxRetries

(* Variant: the ceiling test without the test that a ceiling is set *)
retryCeilingHit_ZeroIsCeiling(c) == c.reconnectAttempt >= c.maxRetries

(* The retry-ceiling test of _scheduleReconnect *)
retryCeilingHit(c) ==
    c.maxRetries > 0 /\ c.reconnectAttempt >= c.maxRetries

(* _scheduleReconnect *)
scheduleReconnect(w) ==
    IF retryCeilingHit(w.c)
    THEN logAndEmit(w, EvReconnectFailed(w.c.reconnectAttempt))
    ELSE LET delayMs == getReconnectDelay(w.c)
             w1 == [w EXCEPT !.c.reconnectAttempt = @ + 1,
                             !.overflow = @ \/ w.c.reconnectAttempt >= MaxAttempt]
             w2 == logAndEmit(w1, EvReconnecting(w1.c.reconnectAttempt, delayMs))
         IN IF w2.threw THEN w2 ELSE setReconnectTimeout(w2)

----------------------------------------------------------------------------
(* Transport handles (the RustPlus client of @liamcottle/rustplus.js, used *)
(* through connect(), disconnect() and its events).  A handle is           *)
(*   "free"        not in use (never created, or closed and dropped),      *)
(*   "connecting"  created, handshake started,                             *)
(*   "connected"   the 'connected' event was delivered,                    *)
(*   "closing"     disconnect() was called on it; its 'disconnected'       *)
(*                 event is still to be delivered,                         *)
(*   "closed"      its 'disconnected' event was delivered, or its          *)
(*                 handshake never started.                                *)
(* The handlers attached by _attachRustPlusHandlers are never detached, so *)
(* a handle keeps notifying the Session after the Session dropped it.      *)

HandleStates == {"free", "connecting", "connected", "closing", "closed"}

IsOpen(st) == st \in {"connecting", "connected"}

OpenHandles(hs) == {h \in Handles : IsOpen(hs[h])}

(* new RustPlus(...); this._attachRustPlusHandlers(); this._rustplus.connect() *)
(* outcome "ok": all three succeed; "ctorThrows": the constructor throws,  *)
(* this._rustplus keeps its old value; "connectThrows": the handle is      *)
(* stored and wired, and starting the handshake throws.                    *)
ConnectOutcomes == {"ok", "ctorThrows", "connectThrows"}

createClient(w, outcome) ==
    LET free == {h \in Handles : w.handles[h] = "free"}
    IN IF outcome = "ctorThrows" THEN [w EXCEPT !.threw = TRUE]
       ELSE IF free = {} THEN [w EXCEPT !.overflow = TRUE]
       ELSE [w EXCEPT !.c.rustplus = Min(free),
                      !.handles[Min(free)] =
                          IF outcome = "ok" THEN "connecting" ELSE "closed",
                      !.threw = (outcome = "connectThrows")]

(* Variant: the catch block reports the error and leaves it at that *)
connectCatch_NoReconnect(w) == emit([w EXCEPT !.threw = FALSE], EvError)

(* The catch block of connect(): emit('error'), then _scheduleReconnect    *)
connectCatch(w) ==
    LET w1 == emit([w EXCEPT !.threw = FALSE], EvError)
    IN IF w1.threw THEN w1 ELSE scheduleReconnect(w1)

(* Variant: connect() starts the retry count afresh *)
connect_ResetsCounter(w, outcome) ==
    LET w1 == clearReconnectTimer(w)
        w2 == [w1 EXCEPT !.c.intentionalClose = FALSE, !.connects = @ + 1,
                         !.c.reconnectAttempt = 0]
        w3 == createClient(w2, outcome)
    IN IF w3.threw THEN connectCatch(w3) ELSE w3

(* RustPlusConnection.connect *)
connect(w, outcome) ==
    LET w1 == clearReconnectTimer(w)
        w2 == [w1 EXCEPT !.c.intentionalClose = FALSE, !.connects = @ + 1]
        w3 == createClient(w2, outcome)
    IN IF w3.threw THEN connectCatch(w3) ELSE w3

(* this._rustplus.disconnect() of the transport: closes the handle; the    *)
(* close is notified later by a 'disconnected' event.  tThrows: the call   *)
(* throws, which disconnect() catches and logs.                            *)
transportDisconnect(hs, h) ==
    IF IsOpen(hs[h]) THEN [hs EXCEPT ![h] = "closing"] ELSE hs

(* Variant: disconnect() forgets to set the intentional-close flag *)
disconnect_NoFlag(w, tThrows) ==
    LET w2 == clearReconnectTimer(w)
        w3 == [w2 EXCEPT !.c.isConnected = FALSE]
    IN IF w3.c.rustplus # NULL
       THEN [w3 EXCEPT !.handles = transportDisconnect(@, w3.c.rustplus),
                       !.caught = tThrows,
                       !.c.rustplus = NULL]
       ELSE w3

(* RustPlusConnection.disconnect *)
disconnect(w, tThrows) ==
    LET w1 == [w EXCEPT !.c.intentionalClose = TRUE]
        w2 == clearReconnectTimer(w1)
        w3 == [w2 EXCEPT !.c.isConnected = FALSE]
    IN IF w3.c.rustplus # NULL
       THEN [w3 EXCEPT !.handles = transportDisconnect(@, w3.c.rustplus),
                       !.caught = tThrows,
                       !.c.rustplus = NULL]
       ELSE w3

(* Variant: a successful connection does not reset the counter *)
onConnected_NoReset(w) ==
    LET w1 == [w EXCEPT !.c.isConnected = TRUE]
    IN logAndEmit(clearReconnectTimer(w1), EvConnected)

(* Variant: a new connection starts with an empty entity-type cache *)
onConnected_ClearsCache(w) ==
    LET w1 == [w EXCEPT !.c.isConnected = TRUE, !.c.reconnectAttempt = 0,
                        !.c.entityTypeCache = [e \in Entities |-> NOT_CACHED]]
    IN logAndEmit(clearReconnectTimer(w1), EvConnected)

(* _onConnected *)
onConnected(w) ==
    LET w1 == [w EXCEPT !.c.isConnected = TRUE, !.c.reconnectAttempt = 0]
    IN logAndEmit(clearReconnectTimer(w1), EvConnected)

(* _onDisconnected *)
onDisconnected(w) ==
    LET w1 == [w EXCEPT !.c.isConnected = FALSE]
        w2 == logAndEmit(w1, EvDisconnected(w1.c.intentionalClose))
        reconnect(x) == IF ~x.c.intentionalClose THEN scheduleReconnect(x) ELSE x
    IN IF w2.threw THEN w2 ELSE reconnect(w2)

(* _onError *)
onError(w) == emit(w, EvError)

(* The try/catch around each handler attached in _attachRustPlusHandlers:  *)
(* an exception of the handler is logged and goes no further.              *)
guarded(w) == [w EXCEPT !.caught = @ \/ w.threw, !.threw = FALSE]

(* Variant: the callback does not look at the intentional-close flag *)
reconnectTimerCallback_NoCheck(w, outcome) ==
    connect([w EXCEPT !.c.reconnectTimer = NULL], outcome)

(* The callback given to setTimeout in _scheduleReconnect *)
reconnectTimerCallback(w, outcome) ==
    LET w1 == [w EXCEPT !.c.reconnectTimer = NULL]
    IN IF ~w1.c.intentionalClose THEN connect(w1, outcome) ELSE w1

----------------------------------------------------------------------------
(* Entity classifier *)

ItemLists == {<<>>, <<1>>}          \* payload.items when it is an array
Capacities == {0, 24}               \* payload.capacity when it is set

Payloads ==
    [items : {None} \cup {Some(l) : l \in ItemLists},
     capacity : {None} \cup {Some(n) : n \in Capacities},
     value : {None} \cup {Some(b) : b \in BOOLEAN}]

(* AppMessage: no broadcast at all, or a broadcast that may carry a team   *)
(* message and may carry an entityChanged { entityId, payload }.           *)
Messages ==
    {[broadcast |-> FALSE, teamMessage |-> FALSE, entityChanged |-> None]}
    \cup [broadcast : {TRUE}, teamMessage : BOOLEAN,
          entityChanged : {None} \cup
              {Some([entityId |-> e, payload |-> p]) :
                  e \in Entities, p \in {None} \cup {Some(q) : q \in Payloads}}]

EvTeamChat == [type |-> "teamChat"]

(* _emitSwitchChanged *)
emitSwitchChanged(w, entityId, payload) ==
    logAndEmit(w, EvSwitchChanged(entityId, payload.value = Some(TRUE)))

(* _emitAlarmTriggered *)
emitAlarmTriggered(w, entityId, payload) ==
    logAndEmit(w, EvAlarmTriggered(entityId))

(* _emitStorageUpdated: items: payload.items || [], capacity: payload.capacity || 0 *)
emitStorageUpdated(w, entityId, payload) ==
    logAndEmit(w, EvStorageUpdated(entityId,
                IF payload.items = None THEN <<>> ELSE payload.items[1],
                IF payload.capacity = None THEN 0 ELSE payload.capacity[1]))

(* Variant: an empty item list does not count as the storage shape *)
hasItems_NonEmpty(payload) ==
    /\ payload.items # None
    /\ Len(payload.items[1]) > 0
    /\ payload.capacity # None

(* The shape tests of _handleEntityChanged *)
hasItems(payload) ==
    /\ payload.items # None
    /\ Len(payload.items[1]) >= 0
    /\ payload.capacity # None

(* Variant: only null is tested (payload.value !== null), so an absent     *)
(* (undefined) value passes the test                                       *)
hasValue_UndefinedPasses(payload) == TRUE

hasValue(payload) == payload.value # None

(* Variant: an unknown type raises the alarm whatever the value *)
classifyValue_AlwaysAlarm(w, entityId, payload, cachedType) ==
    IF cachedType = ENTITY_SWITCH THEN emitSwitchChanged(w, entityId, payload)
    ELSE IF cachedType = ENTITY_ALARM THEN emitAlarmTriggered(w, entityId, payload)
    ELSE LET w1 == emitSwitchChanged(w, entityId, payload)
             alarm(x) == emitAlarmTriggered(x, entityId, payload)
         IN IF w1.threw THEN w1 ELSE alarm(w1)

(* Variant: a cached alarm is reported only when its value is true *)
classifyValue_AlarmOnlyWhenTrue(w, entityId, payload, cachedType) ==
    IF cachedType = ENTITY_SWITCH THEN emitSwitchChanged(w, entityId, payload)
    ELSE IF cachedType = ENTITY_ALARM
    THEN (IF payload.value = Some(TRUE)
          THEN emitAlarmTriggered(w, entityId, payload) ELSE w)
    ELSE LET w1 == emitSwitchChanged(w, entityId, payload)
             alarm(x) == IF payload.value = Some(TRUE)
                         THEN emitAlarmTriggered(x, entityId, payload)
                         ELSE x
         IN IF w1.threw THEN w1 ELSE alarm(w1)

(* The value-based branch of _handleEntityChanged *)
classifyValue(w, entityId, payload, cachedType) ==
    IF cachedType = ENTITY_SWITCH THEN emitSwitchChanged(w, entityId, payload)
    ELSE IF cachedType = ENTITY_ALARM THEN emitAlarmTriggered(w, entityId, payload)
    ELSE LET w1 == emitSwitchChanged(w, entityId, payload)
             alarm(x) == IF payload.value = Some(TRUE)
                         THEN emitAlarmTriggered(x, entityId, payload)
                         ELSE x
         IN IF w1.threw THEN w1 ELSE alarm(w1)

(* _handleEntityChanged *)
handleEntityChanged(w, entityChanged) ==
    LET entityId == entityChanged.entityId
    IN IF entityChanged.payload = None THEN w
       ELSE LET payload == entityChanged.payload[1]
                cachedType == w.c.entityTypeCache[entityId]
            IN IF cachedType = ENTITY_STORAGE_MONITOR \/ hasItems(payload)
               THEN emitStorageUpdated(w, entityId, payload)
               ELSE IF hasValue(payload)
               THEN classifyValue(w, entityId, payload, cachedType)
               ELSE w

(* _handleTeamMessage *)
handleTeamMessage(w) == logAndEmit(w, EvTeamChat)

(* _onMessage *)
onMessage(w, message) ==
    IF ~message.broadcast THEN w
    ELSE LET w1 == IF message.teamMessage THEN handleTeamMessage(w) ELSE w
             entity(x) == IF message.entityChanged # None
                          THEN handleEntityChanged(x, message.entityChanged[1])
                          ELSE x
         IN IF w1.threw THEN w1 ELSE entity(w1)

(* registerEntityType *)
registerEntityType(w, entityId, entityType) ==
    [w EXCEPT !.c.entityTypeCache[entityId] = entityType]

----------------------------------------------------------------------------
(* Map poller (src/src/rustplus/mapPoller.js).  A run is the state object  *)
(* created by one startPoller call; the interval callback, the start-up    *)
(* timeout and the response callbacks of the run keep referring to it      *)
(* after stopPoller removed it from pollerMap.                             *)

MARKER_EXPLOSION == 2
MARKER_CH47 == 4
MARKER_CARGO_SHIP == 5
MARKER_CRATE == 6
MARKER_PATROL_HELICOPTER == 8

MarkerTypes ==
    {MARKER_EXPLOSION, MARKER_CH47, MARKER_CARGO_SHIP, MARKER_CRATE,
     MARKER_PATROL_HELICOPTER}

(* mapMarkers.markers, as the set of the marker types it holds: no tracked *)
(* marker, one marker of each type, both rig markers, and two kinds at     *)
(* once.                                                                   *)
MarkerLists ==
    {{}} \cup {{t} : t \in MarkerTypes}
    \cup {{MARKER_CRATE, MARKER_CH47}, {MARKER_CARGO_SHIP, MARKER_PATROL_HELICOPTER}}

Kinds == {"cargo", "heli", "bradley", "oilrig"}

(* Respawn windows, in milliseconds *)
RESPAWN_MS ==
    [cargo |-> 6300000, heli |-> 9000000, bradley |-> 1800000, oilrig |-> 900000]

(* _formatDuration: "Xh Ymin", "Xh" or "Ymin" of Math.round(ms / 60000)     *)
(* minutes; the record holds X and Y                                       *)
formatDuration(ms) ==
    IF ms <= 0 THEN [hours |-> 0, mins |-> 0]
    ELSE LET totalMinutes == (ms + 30000) \div 60000
         IN [hours |-> totalMinutes \div 60, mins |-> totalMinutes % 60]

(* The texts of _timerLine and getSingleTimerMessage: which of the four    *)
(* sentences, the time of day it names and the duration it names.  Times   *)
(* are milliseconds; now is Date.now().                                    *)
TimerText(form, at, duration) == [form |-> form, at |-> at, next |-> duration]

(* Variant: the despawn time is looked at before the active flag *)
timerLine_DespawnFirst(eventName, timer, now) ==
    IF timer.despawnedAt # None
    THEN LET remaining == RESPAWN_MS[eventName] - (now - timer.despawnedAt[1])
         IN IF remaining > 0
            THEN TimerText("down", timer.despawnedAt, Some(formatDuration(remaining)))
            ELSE TimerText("respawned", timer.despawnedAt, None)
    ELSE IF timer.active THEN TimerText("active", timer.spawnedAt, None)
    ELSE TimerText("unknown", None, None)

(* _timerLine *)
timerLine(eventName, timer, now) ==
    IF timer.active THEN TimerText("active", timer.spawnedAt, None)
    ELSE IF timer.despawnedAt # None
    THEN LET respawnMs == RESPAWN_MS[eventName]
             elapsed == now - timer.despawnedAt[1]
             remaining == respawnMs - elapsed
         IN IF remaining > 0
            THEN TimerText("down", timer.despawnedAt, Some(formatDuration(remaining)))
            ELSE TimerText("respawned", timer.despawnedAt, None)
    ELSE TimerText("unknown", None, None)

(* getSingleTimerMessage: the same decisions, other sentences *)
getSingleTimerMessage(eventName, timer, now) ==
    IF timer.active THEN TimerText("active", timer.spawnedAt, None)
    ELSE IF timer.despawnedAt # None
    THEN LET respawnMs == RESPAWN_MS[eventName]
             elapsed == now - timer.despawnedAt[1]
             remaining == respawnMs - elapsed
         IN IF remaining > 0
            THEN TimerText("down", timer.despawnedAt, Some(formatDuration(remaining)))
            ELSE TimerText("respawned", timer.despawnedAt, None)
    ELSE TimerText("unknown", None, None)

(* String.fromCharCode(n): the code unit is n modulo 2^16 *)
fromCharCode(n) == n % 65536

(* _coordToGrid: the label is the column character followed by the row     *)
(* number; "??" has neither.  !mapSize holds of 0 and of undefined (NULL).  *)
(* Math.floor(a / b) is a \div b.                                           *)
UnknownGrid == [colLetter |-> None, row |-> None]

coordToGrid(x, y, mapSize) ==
    IF mapSize = NULL THEN UnknownGrid
    ELSE LET col == x \div cellSize
             row == (mapSize - y) \div cellSize
         IN [colLetter |-> Some(fromCharCode(CHAR_A + col)),
             row |-> Some(row + 1)]

(* _isOilrigMarker *)
isOilrigMarker_CrateOnly(t) == t = MARKER_CRATE

isOilrigMarker(t) == t = MARKER_CRATE \/ t = MARKER_CH47

(* The four markers.some(...) tests of _tick *)
Presence(markers) ==
    [k \in Kinds |->
        CASE k = "cargo" -> \E t \in markers : t = MARKER_CARGO_SHIP
          [] k = "heli" -> \E t \in markers : t = MARKER_PATROL_HELICOPTER
          [] k = "bradley" -> \E t \in markers : t = MARKER_EXPLOSION
          [] k = "oilrig" -> \E t \in markers : isOilrigMarker(t)]

(* The answers to getMapMarkers: an error response, a response without     *)
(* mapMarkers, or a snapshot.                                              *)
Responses ==
    {[kind |-> "error", markers |-> {}], [kind |-> "noMarkers", markers |-> {}]}
    \cup {[kind |-> "markers", markers |-> m] : m \in MarkerLists}

RunIds == 1..MaxRuns
NoRun == 0

(* _blankTimer, as the poller state of a run keeps it here: the times      *)
(* spawnedAt and despawnedAt are read by the summary functions only, the   *)
(* diff below decides on the active flag.  The whole timer, with its       *)
(* times, is blankEventTimer below.                                        *)
blankTimer == [active |-> FALSE]

(* new Date(): the time of the call; a timer keeps that a time was         *)
(* recorded, not which                                                     *)
newDate == "now"

(* _blankTimer, whole *)
blankEventTimer == [active |-> FALSE, spawnedAt |-> None, despawnedAt |-> None]

(* Variant: the baseline sets the flag and leaves the spawn time alone *)
processTimer_BaselineFlagOnly(timer, nowPresent, isFirstTick) ==
    IF isFirstTick THEN [timer EXCEPT !.active = nowPresent]
    ELSE IF nowPresent /\ ~timer.active
    THEN [timer EXCEPT !.active = TRUE, !.spawnedAt = Some(newDate)]
    ELSE IF ~nowPresent /\ timer.active
    THEN [timer EXCEPT !.active = FALSE, !.despawnedAt = Some(newDate)]
    ELSE timer

(* _processEvent, as it assigns to the timer object it is given *)
processTimer(timer, nowPresent, isFirstTick) ==
    IF isFirstTick
    THEN [timer EXCEPT !.active = nowPresent,
                       !.spawnedAt = IF nowPresent THEN Some(newDate) ELSE None]
    ELSE IF nowPresent /\ ~timer.active
    THEN [timer EXCEPT !.active = TRUE, !.spawnedAt = Some(newDate)]
    ELSE IF ~nowPresent /\ timer.active
    THEN [timer EXCEPT !.active = FALSE, !.despawnedAt = Some(newDate)]
    ELSE timer

(* The order in which the callback of _tick goes through the kinds *)
KindOrder == <<"cargo", "heli", "bradley", "oilrig">>

(* The callback of _tick on a snapshot, as it assigns to the timers and to *)
(* the initialized flag of a state object.  A listener of the Spawn or     *)
(* Despawn event of kind raisesAt raises: the callback's catch ends the    *)
(* processing after the assignments of that kind.                          *)
snapshotTimers(state, markers, raisesAt) ==
    LET present == Presence(markers)
        isFirstTick == ~state.initialized
        after(k) == processTimer(state.timers[k], present[k], isFirstTick)
        emits(k) == ~isFirstTick /\ after(k) # state.timers[k]
        index(k) == CHOOSE i \in 1..Len(KindOrder) : KindOrder[i] = k
        raised == raisesAt \in Kinds /\ emits(raisesAt)
        reached(k) == raised => index(k) <= index(raisesAt)
    IN [timers |-> [k \in Kinds |->
                      IF reached(k) THEN after(k) ELSE state.timers[k]],
        initialized |-> state.initialized \/ (isFirstTick /\ ~raised)]

(* A run that no startPoller call has created yet *)
UnusedRun ==
    [used |-> FALSE, interval |-> FALSE, startup |-> FALSE,
     initialized |-> FALSE, timers |-> [k \in Kinds |-> blankTimer],
     requests |-> [h \in Handles |-> 0]]

(* The state object of startPoller, with its interval and its 2000 ms      *)
(* timeout pending.  (The 3000 ms timeout only fetches state.mapSize.)     *)
NewRun == [UnusedRun EXCEPT !.used = TRUE, !.interval = TRUE, !.startup = TRUE]

EvSpawn(k) == [type |-> "spawn", event |-> k]
EvDespawn(k) == [type |-> "despawn", event |-> k]

(* _processEvent, as it emits for the timer object it is given *)
processTimerEvents(timer, eventName, nowPresent, isFirstTick) ==
    IF isFirstTick THEN <<>>
    ELSE IF nowPresent /\ ~timer.active THEN <<EvSpawn(eventName)>>
    ELSE IF ~nowPresent /\ timer.active THEN <<EvDespawn(eventName)>>
    ELSE <<>>

(* The events that the callback of _tick emits on a snapshot when no       *)
(* listener raises, in the order of the four _processEvent calls           *)
snapshotEvents(state, markers) ==
    LET present == Presence(markers)
        isFirstTick == ~state.initialized
        of(i) == processTimerEvents(state.timers[KindOrder[i]], KindOrder[i],
                                    present[KindOrder[i]], isFirstTick)
    IN of(1) \o of(2) \o of(3) \o of(4)

(* _spawnMessage, _despawnMessage: one fixed text per kind *)
spawnMessage(k) == [text |-> "spawned", of |-> k]
despawnMessage(k) == [text |-> "despawned", of |-> k]

(* _safeSendTeamMessage of the poller *)
pollerSendTeamMessage(w, text) ==
    IF ~w.c.isConnected THEN w
    ELSE IF w.c.rustplus = NULL THEN w
    ELSE sendTeamMessage(w, text)

(* stopPoller *)
stopPoller_KeepsEntry(w) ==
    IF w.poller.map = NoRun THEN w
    ELSE [w EXCEPT !.poller.runs[w.poller.map].interval = FALSE]

stopPoller(w) ==
    IF w.poller.map = NoRun
    THEN IF peerPolled(w, key(AddrA.ip, AddrA.port))
         THEN [w EXCEPT !.peer.interval = FALSE, !.peer.polled = FALSE]
         ELSE w
    ELSE [w EXCEPT !.poller.runs[w.poller.map].interval = FALSE,
                   !.poller.map = NoRun]

(* getTimerState *)
getTimerState(p) ==
    IF p.map = NoRun THEN None ELSE Some(p.runs[p.map].timers)

(* startPoller *)
startPoller(w) ==
    LET has == \/ w.poller.map # NoRun
               \/ peerPolled(w, key(AddrA.ip, AddrA.port))
        w1 == IF has THEN stopPoller(w) ELSE w
        free == {r \in RunIds : ~w1.poller.runs[r].used}
    IN IF free = {} THEN [w1 EXCEPT !.overflow = TRUE]
       ELSE [w1 EXCEPT !.poller.runs[Min(free)] = NewRun,
                       !.poller.map = Min(free)]

(* Variant: the diff never takes the baseline branch *)
processEvent_NoBaseline(w, r, k, nowPresent, isFirstTick) ==
    LET timer == w.poller.runs[r].timers[k]
    IN IF nowPresent /\ ~timer.active
       THEN emit(pollerSendTeamMessage(
                    [w EXCEPT !.poller.runs[r].timers[k].active = TRUE],
                    spawnMessage(k)),
                 EvSpawn(k))
       ELSE IF ~nowPresent /\ timer.active
       THEN emit(pollerSendTeamMessage(
                    [w EXCEPT !.poller.runs[r].timers[k].active = FALSE],
                    despawnMessage(k)),
                 EvDespawn(k))
       ELSE w

(* Variant: a marker that is still present is announced again *)
processEvent_SpawnWhilePresent(w, r, k, nowPresent, isFirstTick) ==
    LET timer == w.poller.runs[r].timers[k]
    IN IF isFirstTick
       THEN [w EXCEPT !.poller.runs[r].timers[k].active = nowPresent]
       ELSE IF nowPresent
       THEN emit(pollerSendTeamMessage(
                    [w EXCEPT !.poller.runs[r].timers[k].active = TRUE],
                    spawnMessage(k)),
                 EvSpawn(k))
       ELSE IF ~nowPresent /\ timer.active
       THEN emit(pollerSendTeamMessage(
                    [w EXCEPT !.poller.runs[r].timers[k].active = FALSE],
                    despawnMessage(k)),
                 EvDespawn(k))
       ELSE w

(* _processEvent, on timer k of run r *)
processEvent(w, r, k, nowPresent, isFirstTick) ==
    LET timer == w.poller.runs[r].timers[k]
    IN IF isFirstTick
       THEN [w EXCEPT !.poller.runs[r].timers[k].active = nowPresent]
       ELSE IF nowPresent /\ ~timer.active
       THEN emit(pollerSendTeamMessage(
                    [w EXCEPT !.poller.runs[r].timers[k].active = TRUE],
                    spawnMessage(k)),
                 EvSpawn(k))
       ELSE IF ~nowPresent /\ timer.active
       THEN emit(pollerSendTeamMessage(
                    [w EXCEPT !.poller.runs[r].timers[k].active = FALSE],
                    despawnMessage(k)),
                 EvDespawn(k))
       ELSE w

(* Variant: an error response or a response without markers is taken for   *)
(* an empty snapshot                                                       *)
isSnapshot_Always(response) == TRUE

(* The two guards of the getMapMarkers callback *)
isSnapshot(response) == response.kind = "markers"

(* The callback given to getMapMarkers in _tick, for run r and the answer  *)
(* response; its try/catch logs whatever the processing raises.            *)
mapMarkersCallback(w, r, response) ==
    IF ~isSnapshot(response) THEN w
    ELSE LET present == Presence(response.markers)
             isFirstTick == ~w.poller.runs[r].initialized
             p1 == processEvent(w, r, "cargo", present["cargo"], isFirstTick)
             p2 == IF p1.threw THEN p1
                   ELSE processEvent(p1, r, "heli", present["heli"], isFirstTick)
             p3 == IF p2.threw THEN p2
                   ELSE processEvent(p2, r, "bradley", present["bradley"], isFirstTick)
             p4 == IF p3.threw THEN p3
                   ELSE processEvent(p3, r, "oilrig", present["oilrig"], isFirstTick)
             p5 == IF ~p4.threw /\ isFirstTick
                   THEN [p4 EXCEPT !.poller.runs[r].initialized = TRUE]
                   ELSE p4
         IN [p5 EXCEPT !.caught = @ \/ p5.threw, !.threw = FALSE]

(* _tick up to the call of client.getMapMarkers: the request is in flight  *)
(* on the Session's current handle until that handle answers it.           *)
tick(w, r) ==
    IF ~w.c.isConnected THEN w
    ELSE IF w.c.rustplus = NULL THEN w
    ELSE IF w.poller.runs[r].requests[w.c.rustplus] >= MaxPending
    THEN [w EXCEPT !.overflow = TRUE]
    ELSE [w EXCEPT !.poller.runs[r].requests[w.c.rustplus] = @ + 1]

(* The 2000 ms timeout of startPoller, for run r *)
startupTimeout(w, r) ==
    LET w1 == [w EXCEPT !.poller.runs[r].startup = FALSE]
        has == \/ w1.poller.map # NoRun
               \/ peerPolled(w1, key(AddrA.ip, AddrA.port))
    IN IF has THEN tick(w1, r) ELSE w1

(* A request in flight on a handle that is no longer connected is never    *)
(* answered.  A run that stopPoller removed from pollerMap, whose start-up *)
(* timeout has fired and that has no request in flight is referenced by    *)
(* nothing any more: its slot is reused.                                   *)
Collect(p, hs) ==
    LET answerable(r) == [h \in Handles |->
            IF hs[h] = "connected" THEN p.runs[r].requests[h] ELSE 0]
        unreferenced(r) ==
            /\ p.runs[r].used
            /\ p.map # r
            /\ ~p.runs[r].startup
            /\ \A h \in Handles : answerable(r)[h] = 0
    IN [p EXCEPT !.runs = [r \in RunIds |->
           IF unreferenced(r) THEN UnusedRun
           ELSE [p.runs[r] EXCEPT !.requests = answerable(r)]]]

----------------------------------------------------------------------------
(* Registry of Sessions (src/src/rustplus/index.js, createConnection and   *)
(* removeConnection), for one address.  The Session modelled in full is    *)
(* the first that createConnection makes for the address; of a Session     *)
(* made after it only what the registry functions do to it is kept.        *)

(* Sessions are numbered in the order of their construction; the first is *)
(* number 1, and none is none of them.                                     *)
NoSession ==
    [exists |-> FALSE, connects |-> 0, wired |-> FALSE, polled |-> FALSE,
     id |-> NULL]

EmptyRegistry ==
    [holds |-> "none", firstCreated |-> FALSE, other |-> NoSession,
     made |-> 0]

(* getConnection: connections.get(key), NULL for undefined *)
getConnection(reg) ==
    IF reg.holds = "first" THEN 1
    ELSE IF reg.holds = "other" THEN reg.other.id
    ELSE NULL

(* One call made by a registry function, in the order of the calls *)
step(w, s) == [w EXCEPT !.steps = Append(@, s)]

(* existing.disconnect(); connections.delete(key) *)
tearDownExisting(w, tThrows) ==
    IF w.registry.holds = "first"
    THEN step(step([disconnect(w, tThrows) EXCEPT !.registry.holds = "none"],
                   "disconnect first"), "delete")
    ELSE IF w.registry.holds = "other"
    THEN step(step([w EXCEPT !.registry.holds = "none",
                             !.registry.other = NoSession],
                   "disconnect other"), "delete")
    ELSE IF peerHeld(w, connectionKey(AddrA.ip, AddrA.port))
    THEN step(step([w EXCEPT !.peer.disconnected = TRUE,
                             !.peer.registered = FALSE],
                   "disconnect peer"), "delete")
    ELSE w

(* new RustPlusConnection(config); connections.set; the 'error' listener;  *)
(* connection.connect(); wireBroadcasters; startPoller, which stops the    *)
(* run registered for the address before it registers its own              *)
registerNew(w, outcome) ==
    IF ~w.registry.firstCreated
    THEN LET w1 == step(step([w EXCEPT !.registry.firstCreated = TRUE,
                                      !.registry.holds = "first",
                                      !.registry.made = 1,
                                      !.ret = Some(1)],
                             "construct"), "set")
             w2 == step(connect(w1, outcome), "connect")
             w3 == step(wireBroadcasters(w2), "wireBroadcasters")
         IN step(startPoller(w3), "startPoller")
    ELSE LET w1 == step(step([w EXCEPT !.registry.holds = "other",
                                      !.registry.other.exists = TRUE,
                                      !.registry.other.id = w.registry.made + 1,
                                      !.registry.made = @ + 1,
                                      !.ret = Some(w.registry.made + 1)],
                             "construct"), "set")
             w2 == step([w1 EXCEPT !.registry.other.connects = 1], "connect")
             w3 == step([w2 EXCEPT !.registry.other.wired = TRUE],
                        "wireBroadcasters")
         IN step([stopPoller(w3) EXCEPT !.registry.other.polled = TRUE],
                 "startPoller")

(* Variant: the map entry is overwritten without disconnecting the Session *)
(* it held                                                                 *)
createConnection_NoDisconnect(w, outcome, tThrows) ==
    registerNew(w, outcome)

(* createConnection, for a valid config *)
createConnection(w, outcome, tThrows) ==
    registerNew(tearDownExisting(w, tThrows), outcome)

(* createConnection for a config that the function itself rejects (no     *)
(* config.server: it throws before it looks at the map), or that the       *)
(* constructor of RustPlusConnection rejects (a server, but no steamId or  *)
(* playerToken, or no ip or port): the throw comes after the tear-down     *)
createConnectionRejected(w, hasServer, tThrows) ==
    IF ~hasServer THEN [w EXCEPT !.threw = TRUE]
    ELSE [step(tearDownExisting(w, tThrows), "construct") EXCEPT !.threw = TRUE]

(* removeConnection: conn.disconnect(); stopPoller(conn); delete *)
removeConnection(w, tThrows) ==
    IF w.registry.holds = "first"
    THEN step(step(step([stopPoller(disconnect(w, tThrows))
                           EXCEPT !.registry.holds = "none",
                                  !.ret = Some(TRUE)],
                        "disconnect first"), "stopPoller"), "delete")
    ELSE IF w.registry.holds = "other"
    THEN step(step(step([w EXCEPT !.registry.holds = "none",
                                  !.registry.other = NoSession,
                                  !.ret = Some(TRUE)],
                        "disconnect other"), "stopPoller"), "delete")
    ELSE IF peerHeld(w, connectionKey(AddrA.ip, AddrA.port))
    THEN step(step(step([stopPoller(w) EXCEPT !.peer.disconnected = TRUE,
                                              !.peer.registered = FALSE,
                                              !.ret = Some(TRUE)],
                        "disconnect peer"), "stopPoller"), "delete")
    ELSE [w EXCEPT !.ret = Some(FALSE)]

----------------------------------------------------------------------------
(* State *)

(* The fields set by the constructor.  maxRetries is configurable per      *)
(* Session; 0 disables the retry ceiling.                                  *)
(* The constructor, with config.reconnect merged over RECONNECT_DEFAULTS *)
NewConnectionWith(maxRetries, initialDelay, maxDelay) ==
    [rustplus |-> NULL,
     intentionalClose |-> FALSE,
     reconnectAttempt |-> 0,
     reconnectTimer |-> NULL,
     isConnected |-> FALSE,
     initialDelayMs |-> initialDelay,
     maxDelayMs |-> maxDelay,
     maxRetries |-> maxRetries,
     entityTypeCache |-> [e \in Entities |-> NOT_CACHED]]

NewConnection(maxRetries) ==
    NewConnectionWith(maxRetries, initialDelayMs, maxDelayMs)

(* Listeners attached to the Session: the event types for which some       *)
(* listener raises, and whether an 'error' listener exists (createConnec-  *)
(* tion attaches one).                                                     *)
WellBehaved == [throws |-> {}, error |-> TRUE]

(* What a poller step acted on: the run, the answer it processed, and      *)
(* whether the run was stopped, and had its baseline, before the step.     *)
NoPoll ==
    [run |-> NoRun, response |-> None, wasStopped |-> FALSE,
     wasInitialized |-> FALSE]

NoOp ==
    [op |-> "new", msg |-> None, threw |-> FALSE, caught |-> FALSE,
     scheduled |-> FALSE, connects |-> 0, hadHandle |-> FALSE,
     wasIntentional |-> FALSE, wasAttempt |-> 0, wasFailed |-> FALSE,
     repeat |-> FALSE, poll |-> NoPoll, db |-> "named", steps |-> <<>>,
     ret |-> None, logFailed |-> FALSE]

NoHist ==
    [explicitlyDisconnected |-> FALSE, timerWasPending |-> FALSE,
     failed |-> FALSE, pure |-> TRUE, log |-> <<>>, notified |-> {},
     fill |-> [e \in Entities |-> None], rewired |-> FALSE,
     reconnectings |-> 0, lastDelay |-> None]

InitAmong(conns, subs, ops, peers) ==
    /\ conn \in conns
    /\ peer \in peers
    /\ handles = [h \in Handles |-> "free"]
    /\ timers = {}
    /\ subscribers = subs
    /\ emitted = <<>>
    /\ lastOp \in ops
    /\ hist = NoHist
    /\ poller = [map |-> NoRun, runs |-> [r \in RunIds |-> UnusedRun]]
    /\ bridge = [wired |-> FALSE, listeners |-> 0,
                 storageAboveThreshold |-> [e \in Entities |-> None]]
    /\ registry = EmptyRegistry
    /\ sent = <<>>

InitFrom(conns, subs, ops) == InitAmong(conns, subs, ops, {NoPeer})

InitArgs(subs, retries, args) ==
    InitFrom({NewConnection(n) : n \in retries}, subs,
             {[NoOp EXCEPT !.msg = a] : a \in args})

InitWith(subs, retries) == InitArgs(subs, retries, {None})

Init == InitWith(WellBehaved, 1..MaxRetriesCfg)

(* Subscribers whose handler for 'disconnected' or 'reconnecting' may raise *)
InitThrow ==
    \E t \in SUBSET {"disconnected", "reconnecting"} :
        InitWith([throws |-> t, error |-> TRUE], 1..MaxRetriesCfg)

(* The world a handler starts in *)
World ==
    [c |-> conn, handles |-> handles, timers |-> timers, subs |-> subscribers,
     emitted |-> <<>>, threw |-> FALSE, caught |-> FALSE, scheduled |-> FALSE,
     connects |-> 0, overflow |-> FALSE,
     poller |-> poller, sent |-> <<>>, sendThrows |-> FALSE, poll |-> NoPoll,
     bridge |-> bridge, db |-> "named", registry |-> registry, peer |-> peer, steps |-> <<>>,
     ret |-> None, logThrows |-> FALSE, logFailed |-> FALSE]

(* A closed handle that the Session no longer references never notifies    *)
(* again: its slot is reused.                                              *)
Dropped(hs, cur) ==
    [h \in Handles |-> IF hs[h] = "closed" /\ h # cur THEN "free" ELSE hs[h]]

(* No handle other than the current one is live and no timeout is pending, *)
(* and every listener returns normally.                                    *)
Clean(w) ==
    /\ \A h \in Handles : h # w.c.rustplus => w.handles[h] \in {"free", "closed"}
    /\ w.timers = {}
    /\ w.subs = WellBehaved

(* Nothing is in flight: no live handle at all and no pending timeout *)
Quiet(w) ==
    /\ \A h \in Handles : w.handles[h] \in {"free", "closed"}
    /\ w.timers = {}
    /\ w.subs = WellBehaved

FailureEvents(evs) ==
    LET pick(e) == e.type \in {"reconnecting", "reconnectFailed"}
        sel == SelectSeq(evs, pick)
    IN [i \in 1..Len(sel) |->
          IF sel[i].type = "reconnecting"
          THEN <<"reconnecting", sel[i].attempt>>
          ELSE <<"reconnectFailed", sel[i].attempts>>]

(* The entity an optional message reports a change of *)
ChangedEntity(msg) ==
    IF msg # None /\ msg[1].entityChanged # None
    THEN {msg[1].entityChanged[1].entityId}
    ELSE {}

EmittedTypes(evs) == {evs[i].type : i \in 1..Len(evs)}

(* The Reconnecting events among evs *)
ReconnectingEvents(evs) ==
    LET pick(ev) == ev.type = "reconnecting" IN SelectSeq(evs, pick)

(* The StorageUpdated events of entity e among evs *)
StorageEvents(evs, e) ==
    LET pick(ev) == ev.type = "storageUpdated" /\ ev.entityId = e
    IN SelectSeq(evs, pick)

(* ... and those of them that report a capacity above 0 *)
PositiveStorageEvents(evs, e) ==
    LET pick(ev) == ev.capacity > 0 IN SelectSeq(StorageEvents(evs, e), pick)

(* Whether the fill ratio items.length / capacity of a StorageUpdated      *)
(* event with capacity > 0 is at least 9/10                                *)
FillAbove(ev) == 10 * Len(ev.items) >= 9 * ev.capacity

(* Store the result r of handler op; pure says whether the run is still a  *)
(* plain failure run (see PlainFailureRun below).                          *)
Commit(r, op, msg, pure) ==
    /\ ~r.overflow
    /\ conn' = r.c
    /\ handles' = Dropped(r.handles, r.c.rustplus)
    /\ timers' = r.timers
    /\ emitted' = r.emitted
    /\ lastOp' = [op |-> op, msg |-> msg, threw |-> r.threw,
                  caught |-> r.caught, scheduled |-> r.scheduled,
                  connects |-> r.connects, hadHandle |-> conn.rustplus # NULL,
                  wasIntentional |-> conn.intentionalClose,
                  wasAttempt |-> conn.reconnectAttempt,
                  wasFailed |-> hist.failed,
                  repeat |-> ChangedEntity(msg) \subseteq hist.notified
                             /\ ChangedEntity(msg) # {},
                  poll |-> r.poll, db |-> r.db, steps |-> r.steps,
                  ret |-> r.ret, logFailed |-> r.logFailed]
    /\ hist' =
         [explicitlyDisconnected |->
              IF op = "disconnect" THEN TRUE
              ELSE IF op = "connect" THEN FALSE
              ELSE hist.explicitlyDisconnected,
          timerWasPending |->
              IF op = "disconnect" THEN timers # {}
              ELSE IF op = "connect" THEN FALSE
              ELSE hist.timerWasPending,
          failed |->
              IF op = "connect" THEN "reconnectFailed" \in EmittedTypes(r.emitted)
              ELSE hist.failed \/ "reconnectFailed" \in EmittedTypes(r.emitted),
          pure |-> pure,
          log |-> IF ~pure \/ op = "transportConnected" THEN <<>>
                  ELSE hist.log
                       \o (IF op = "timer" /\ r.connects > 0
                           THEN << <<"connect", 0>> >> ELSE <<>>)
                       \o FailureEvents(r.emitted),
          notified |-> hist.notified \cup ChangedEntity(msg),
          fill |-> [e \in Entities |->
                      IF bridge.wired /\ PositiveStorageEvents(r.emitted, e) # <<>>
                      THEN Some(FillAbove(PositiveStorageEvents(r.emitted, e)[1]))
                      ELSE hist.fill[e]],
          rewired |-> hist.rewired \/ (op = "wireBroadcasters" /\ bridge.wired),
          reconnectings |->
              IF "connected" \in EmittedTypes(r.emitted) THEN 0
              ELSE hist.reconnectings + Len(ReconnectingEvents(r.emitted)),
          lastDelay |->
              IF "connected" \in EmittedTypes(r.emitted) THEN None
              ELSE IF ReconnectingEvents(r.emitted) # <<>>
              THEN Some(ReconnectingEvents(r.emitted)[
                            Len(ReconnectingEvents(r.emitted))].delayMs)
              ELSE hist.lastDelay]
    /\ bridge' = r.bridge
    /\ registry' = r.registry
    /\ peer' = r.peer
    /\ poller' = Collect(r.poller, Dropped(r.handles, r.c.rustplus))
    /\ sent' = r.sent
    /\ UNCHANGED subscribers

----------------------------------------------------------------------------
(* Operations of the caller *)

Connect ==
    \E outcome \in ConnectOutcomes :
        Commit(connect(World, outcome), "connect", None,
               /\ hist.pure /\ hist.log = <<>> /\ outcome = "ok"
               /\ Quiet(World) /\ conn.reconnectAttempt = 0)

Disconnect ==
    \E tThrows \in BOOLEAN :
        /\ tThrows => conn.rustplus # NULL
        /\ Commit(disconnect(World, tThrows), "disconnect", None, FALSE)

RegisterEntityType ==
    \E e \in Entities, t \in {ENTITY_SWITCH, ENTITY_ALARM, ENTITY_STORAGE_MONITOR} :
        Commit(registerEntityType(World, e, t), "registerEntityType", None,
               hist.pure)

(* Notifications of the transport, from any handle that is still live *)

TransportConnected ==
    \E h \in Handles :
        /\ handles[h] = "connecting"
        /\ LET w0 == [World EXCEPT !.handles[h] = "connected"]
               r == guarded(onConnected(w0))
           IN Commit(r, "transportConnected", None,
                     h = conn.rustplus /\ Clean(r))

TransportDisconnected ==
    \E h \in Handles :
        /\ handles[h] \in {"connecting", "connected", "closing"}
        /\ LET w0 == [World EXCEPT !.handles[h] = "closed"]
               r == guarded(onDisconnected(w0))
           IN Commit(r, "transportDisconnected", None,
                     hist.pure /\ h = conn.rustplus)

TransportError ==
    \E h \in Handles :
        /\ handles[h] \in {"connecting", "connected"}
        /\ Commit(guarded(onError(World)), "transportError", None, hist.pure)

TransportMessage ==
    \E h \in Handles, m \in Messages :
        /\ handles[h] = "connected"
        /\ Commit(guarded(onMessage(World, m)), "transportMessage", Some(m),
                  hist.pure)

(* Inputs of the bridge: a value payload of an entity of unknown type, and *)
(* storage payloads that fill 8, 9 or 10 slots of 10, or report 9 items    *)
(* and capacity 0.                                                         *)
ItemsOf(n) == [i \in 1..n |-> 1]

StoragePayload(n, capacity) ==
    [items |-> Some(ItemsOf(n)), capacity |-> Some(capacity), value |-> None]

AlertPayloads ==
    {[items |-> None, capacity |-> None, value |-> Some(TRUE)],
     StoragePayload(8, 10), StoragePayload(9, 10), StoragePayload(10, 10),
     StoragePayload(9, 0)}

AlertMessages ==
    {[broadcast |-> TRUE, teamMessage |-> FALSE,
      entityChanged |-> Some([entityId |-> e, payload |-> Some(p)])] :
         e \in Entities, p \in AlertPayloads}

(* A 'message' notification of the transport together with the outcomes of *)
(* the device lookup and of the chat send it may lead to                   *)
TransportAlertMessage ==
    \E m \in AlertMessages, db \in LookupOutcomes, sendThrows \in BOOLEAN :
        /\ \E h \in Handles : handles[h] = "connected"
        /\ LET w0 == [World EXCEPT !.db = db, !.sendThrows = sendThrows]
           IN Commit(guarded(onMessage(w0, m)), "transportMessage", Some(m),
                     hist.pure)

WireBroadcasters ==
    \E w \in {wireBroadcasters(World)} :
        Commit(w, "wireBroadcasters", None, hist.pure)

(* The notifications and callbacks that write the event log, with a write *)
(* that may raise                                                          *)
Failing(w, logThrows) == [w EXCEPT !.logThrows = logThrows]

LoggedConnected(h, logThrows) ==
    guarded(onConnected(
        Failing([World EXCEPT !.handles[h] = "connected"], logThrows)))

LoggedDisconnected(h, logThrows) ==
    guarded(onDisconnected(
        Failing([World EXCEPT !.handles[h] = "closed"], logThrows)))

LoggedMessage(m, logThrows) == guarded(onMessage(Failing(World, logThrows), m))

LoggedTimer(t, outcome, logThrows) ==
    reconnectTimerCallback(
        Failing([World EXCEPT !.timers = @ \ {t}], logThrows), outcome)

LoggedConnect(outcome, logThrows) == connect(Failing(World, logThrows), outcome)

LogMessages ==
    {[broadcast |-> TRUE, teamMessage |-> TRUE, entityChanged |-> None]}
    \cup {m \in AlertMessages : m.entityChanged[1].entityId = 77}

TransportConnectedLog ==
    \E h \in Handles, logThrows \in BOOLEAN :
        /\ handles[h] = "connecting"
        /\ Commit(LoggedConnected(h, logThrows), "transportConnected", None,
                  FALSE)

TransportDisconnectedLog ==
    \E h \in Handles, logThrows \in BOOLEAN :
        /\ handles[h] \in {"connecting", "connected", "closing"}
        /\ Commit(LoggedDisconnected(h, logThrows), "transportDisconnected",
                  None, FALSE)

TransportMessageLog ==
    \E m \in LogMessages, logThrows \in BOOLEAN :
        /\ \E h \in Handles : handles[h] = "connected"
        /\ Commit(LoggedMessage(m, logThrows), "transportMessage", Some(m),
                  FALSE)

ReconnectTimerFiresLog ==
    \E t \in timers, outcome \in ConnectOutcomes, logThrows \in BOOLEAN :
        /\ ~conn.intentionalClose \/ outcome = "ok"
        /\ Commit(LoggedTimer(t, outcome, logThrows), "timer", None, FALSE)

ConnectLog ==
    \E outcome \in ConnectOutcomes, logThrows \in BOOLEAN :
        /\ conn.rustplus = NULL
        /\ Quiet(World)
        /\ Commit(LoggedConnect(outcome, logThrows), "connect", None, FALSE)

(* The registry functions, called for the address of the Session.  The    *)
(* outcome of connect() and a throwing transport disconnect are inputs     *)
(* where the first Session is the one connected or disconnected.           *)
CreateConnection ==
    \E outcome \in ConnectOutcomes, tThrows \in BOOLEAN :
        /\ tThrows => registry.holds = "first" /\ conn.rustplus # NULL
        /\ outcome # "ok" => ~registry.firstCreated
        /\ registry.made < MaxSessions
        /\ Commit(createConnection(World, outcome, tThrows), "createConnection",
                  None, FALSE)

CreateConnectionRejected ==
    \E hasServer \in BOOLEAN, tThrows \in BOOLEAN :
        /\ tThrows => hasServer /\ registry.holds = "first" /\ conn.rustplus # NULL
        /\ Commit(createConnectionRejected(World, hasServer, tThrows),
                  "createConnectionRejected", None, FALSE)

RemoveConnection ==
    \E tThrows \in BOOLEAN :
        /\ tThrows => registry.holds = "first" /\ conn.rustplus # NULL
        /\ Commit(removeConnection(World, tThrows), "removeConnection", None,
                  FALSE)

(* A pending timeout fires *)
ReconnectTimerFires ==
    \E t \in timers, outcome \in ConnectOutcomes :
        /\ ~conn.intentionalClose \/ outcome = "ok"
        /\ LET w0 == [World EXCEPT !.timers = @ \ {t}]
           IN Commit(reconnectTimerCallback(w0, outcome), "timer", None,
                     hist.pure /\ outcome = "ok")

(* Operations and callbacks of the poller *)

(* What a step on run r acts on *)
PollOf(r, response) ==
    [run |-> r, response |-> response, wasStopped |-> poller.map # r,
     wasInitialized |-> poller.runs[r].initialized]

StartPoller ==
    \E w \in {startPoller(World)} :
        Commit(w, "startPoller", None, hist.pure)

StopPoller ==
    \E w \in {stopPoller(World)} :
        Commit([w EXCEPT !.poll.run = poller.map], "stopPoller", None, hist.pure)

(* The start-up timeout of run r fires *)
StartupTimeoutFires ==
    \E r \in RunIds :
        /\ poller.runs[r].startup
        /\ Commit([startupTimeout(World, r) EXCEPT !.poll = PollOf(r, None)],
                  "startupTimeout", None, hist.pure)

(* The interval of run r fires; its first firing (10 s) comes after the    *)
(* start-up timeout (2 s) of the same startPoller call.                    *)
IntervalFires ==
    \E r \in RunIds :
        /\ poller.runs[r].interval
        /\ ~poller.runs[r].startup
        /\ Commit([tick(World, r) EXCEPT !.poll = PollOf(r, None)],
                  "intervalTick", None, hist.pure)

(* Handle h answers a snapshot request of run r *)
MapMarkersResponse ==
    \E r \in RunIds, h \in Handles, response \in Responses :
        /\ poller.runs[r].requests[h] > 0
        /\ handles[h] = "connected"
        /\ LET w0 == [World EXCEPT !.poller.runs[r].requests[h] = @ - 1,
                                   !.poll = PollOf(r, Some(response))]
           IN Commit(mapMarkersCallback(w0, r, response),
                     "mapMarkersResponse", None, hist.pure)

----------------------------------------------------------------------------
(* Specifications *)

(* The connection lifecycle *)
Next ==
    \/ Connect
    \/ Disconnect
    \/ TransportConnected
    \/ TransportDisconnected
    \/ TransportError
    \/ ReconnectTimerFires

Spec == Init /\ [][Next]_vars

(* The same on Sessions without a retry ceiling whose config.reconnect     *)
(* names the delays: the defaults, a cap that the third delay reaches, and *)
(* a cap below the initial delay                                           *)
DelayConfigs ==
    {<<initialDelayMs, maxDelayMs>>, <<initialDelayMs, 2 * initialDelayMs>>,
     <<initialDelayMs, initialDelayMs - 1000>>}

InitDelay ==
    InitFrom({NewConnectionWith(0, cfg[1], cfg[2]) : cfg \in DelayConfigs},
             WellBehaved, {NoOp})

SpecDelay == InitDelay /\ [][Next]_vars

(* The same with listeners that may raise *)
SpecThrow == InitThrow /\ [][Next]_vars

(* The classifier, on a Session that the caller connects once *)
NextClassifier ==
    \/ (Quiet(World) /\ conn.rustplus = NULL /\ Connect)
    \/ TransportConnected
    \/ RegisterEntityType
    \/ TransportMessage

SpecClassifier == Init /\ [][NextClassifier]_vars

(* The step has left the Session with a handle whose handshake is under way *)
HandshakeStarted ==
    /\ conn'.rustplus # NULL
    /\ handles'[conn'.rustplus] = "connecting"

(* The poller, on a Session that the caller connects once and that         *)
(* reconnects by itself; every connect() starts a handshake                *)
NextPoller ==
    \/ (Quiet(World) /\ conn.rustplus = NULL /\ Connect /\ HandshakeStarted)
    \/ TransportConnected
    \/ TransportDisconnected
    \/ (ReconnectTimerFires /\ HandshakeStarted)
    \/ StartPoller
    \/ StopPoller
    \/ StartupTimeoutFires
    \/ IntervalFires
    \/ MapMarkersResponse

InitPoller == InitWith(WellBehaved, {1})

SpecPoller == InitPoller /\ [][NextPoller]_vars

(* No handle other than the Session's own is open *)
NoStaleHandle ==
    \A h \in Handles : IsOpen(handles[h]) => h = conn.rustplus

(* The bridge, on a Session that the caller connects and disconnects;      *)
(* every connect() starts a handshake, and the caller calls connect() over *)
(* an open handle only while no earlier handle is left open                *)
NextBridge ==
    \/ (NoStaleHandle /\ Connect /\ HandshakeStarted)
    \/ Disconnect
    \/ TransportConnected
    \/ WireBroadcasters
    \/ TransportAlertMessage

SpecBridge == InitPoller /\ [][NextBridge]_vars

(* The registry: Sessions are made, replaced and removed through it; the   *)
(* first Session reconnects by itself, and while it is registered its      *)
(* holder may call connect() again, as in NextBridge                       *)
NextRegistry ==
    \/ CreateConnection
    \/ CreateConnectionRejected
    \/ (registry.holds = "first" /\ NoStaleHandle /\ Connect)
    \/ RemoveConnection
    \/ TransportConnected
    \/ TransportDisconnected
    \/ TransportError
    \/ ReconnectTimerFires

SpecRegistry == Init /\ [][NextRegistry]_vars

(* The Session of AddrB in the states createConnection(AddrB) and         *)
(* removeConnection(AddrB) leave it in: never created; created, with or    *)
(* without entity types registered and timers running; removed.            *)
PeerStates ==
    {NoPeer,
     [NoPeer EXCEPT !.registered = TRUE, !.polled = TRUE, !.interval = TRUE],
     [NoPeer EXCEPT !.registered = TRUE, !.polled = TRUE, !.interval = TRUE,
                    !.entityTypeCache[77] = ENTITY_ALARM,
                    !.activeTimers = {"cargo"}],
     [NoPeer EXCEPT !.disconnected = TRUE,
                    !.entityTypeCache[77] = ENTITY_ALARM]}

InitPeers ==
    InitAmong({NewConnection(1)}, WellBehaved, {NoOp}, PeerStates)

(* The registry, the Session of AddrA and its poller, beside the Session   *)
(* of AddrB                                                                *)
NextPeers ==
    \/ CreateConnection
    \/ CreateConnectionRejected
    \/ (registry.holds = "first" /\ Quiet(World) /\ conn.rustplus = NULL
           /\ Connect /\ HandshakeStarted)
    \/ (registry.holds = "first" /\ Disconnect)
    \/ RemoveConnection
    \/ TransportConnected
    \/ TransportDisconnected
    \/ TransportError
    \/ (ReconnectTimerFires /\ HandshakeStarted)
    \/ StartupTimeoutFires
    \/ IntervalFires
    \/ MapMarkersResponse

SpecPeers == InitPeers /\ [][NextPeers]_vars

(* A broadcast that entity 77, of no registered type, has the value true:  *)
(* the classifier emits SwitchChanged and AlarmTriggered for it            *)
AlarmBroadcast ==
    [broadcast |-> TRUE, teamMessage |-> FALSE,
     entityChanged |-> Some([entityId |-> 77,
         payload |-> Some([items |-> None, capacity |-> None,
                           value |-> Some(TRUE)])])]

(* The poller beside everything else that happens to its Session: the     *)
(* caller's connect() and disconnect(), the notifications of the           *)
(* transport, the reconnect timer, and an alarm broadcast with the bridge  *)
(* wired.  Each poller state asks for the markers once, by the tick of its *)
(* start-up timeout.                                                       *)
NextPollerFrame ==
    \/ (Quiet(World) /\ conn.rustplus = NULL /\ Connect /\ HandshakeStarted)
    \/ Disconnect
    \/ TransportConnected
    \/ TransportDisconnected
    \/ TransportError
    \/ (ReconnectTimerFires /\ HandshakeStarted)
    \/ WireBroadcasters
    \/ (TransportAlertMessage /\ lastOp'.msg = Some(AlarmBroadcast))
    \/ StartPoller
    \/ StopPoller
    \/ StartupTimeoutFires
    \/ MapMarkersResponse

SpecPollerFrame == InitPoller /\ [][NextPollerFrame]_vars

(* The connection lifecycle of a Session configured with maxRetries = 0 *)
InitNoCeiling == InitWith(WellBehaved, {0})

SpecNoCeiling == InitNoCeiling /\ [][Next]_vars

(* A Session whose caller calls connect() to start it and again only after *)
(* ReconnectFailed, and may call disconnect() at any time                  *)
NextResume ==
    \/ ((lastOp.op = "new" \/ hist.failed) /\ Connect)
    \/ Disconnect
    \/ TransportConnected
    \/ TransportDisconnected
    \/ TransportError
    \/ ReconnectTimerFires

SpecResume == Init /\ [][NextResume]_vars

(* The entity-type cache, on a Session that is connected, disconnected and *)
(* reconnected, by its caller and by itself                                *)
NextCache ==
    \/ (Quiet(World) /\ conn.rustplus = NULL /\ Connect /\ HandshakeStarted)
    \/ Disconnect
    \/ TransportConnected
    \/ TransportDisconnected
    \/ TransportError
    \/ (ReconnectTimerFires /\ HandshakeStarted)
    \/ TransportMessageLog
    \/ RegisterEntityType

SpecCache == InitPoller /\ [][NextCache]_vars

(* The Session with an event log whose writes may raise *)
NextLog ==
    \/ ConnectLog
    \/ Disconnect
    \/ TransportConnectedLog
    \/ TransportDisconnectedLog
    \/ TransportMessageLog
    \/ ReconnectTimerFiresLog

SpecLog == Init /\ [][NextLog]_vars

----------------------------------------------------------------------------
(* Properties of the connection lifecycle *)

IsPrefix(a, b) ==
    /\ Len(a) <= Len(b)
    /\ \A i \in 1..Len(a) : a[i] = b[i]

(* C1: on a Session with maxRetries > 0 the reconnect-attempt counter      *)
(* never exceeds maxRetries, and it is 0 right after every transport       *)
(* 'connected' notification has been handled.                              *)
C1_CounterBoundedAndReset ==
    conn.maxRetries > 0 =>
        /\ conn.reconnectAttempt <= conn.maxRetries
        /\ lastOp.op = "transportConnected" => conn.reconnectAttempt = 0

(* A 'connected' notification was handled when the counter stood at the    *)
(* ceiling.                                                                *)
C1_Witness ==
    /\ conn.maxRetries > 0
    /\ lastOp.op = "transportConnected"
    /\ lastOp.wasAttempt = conn.maxRetries
    /\ conn.reconnectAttempt = 0

(* C2: after a disconnect() that found a reconnect timer pending, no timer *)
(* is recorded and a timer that still fires does nothing (no connect(), no *)
(* event, no new timer), until the caller calls connect().                 *)
C2_NoAutomaticConnectAfterDisconnect ==
    hist.timerWasPending =>
        /\ conn.reconnectTimer = NULL
        /\ lastOp.op = "timer" =>
              /\ lastOp.connects = 0
              /\ emitted = <<>>
              /\ ~lastOp.scheduled

(* A timer that disconnect() did not cancel fired after the disconnect().  *)
C2_Witness ==
    /\ hist.timerWasPending
    /\ lastOp.op = "timer"

(* C3: at most one transport handle created by the Session is open         *)
(* (connecting or connected) at any time.                                  *)
C3_AtMostOneOpenHandle == Cardinality(OpenHandles(handles)) <= 1

(* The sequence a plain failure run must produce with ceiling n:           *)
(* Reconnecting 1, connect, ..., Reconnecting n, connect, ReconnectFailed n *)
ExpectedFailureRun(n) ==
    [i \in 1..(2 * n + 1) |->
        IF i = 2 * n + 1 THEN <<"reconnectFailed", n>>
        ELSE IF i % 2 = 1 THEN <<"reconnecting", (i + 1) \div 2>>
        ELSE <<"connect", 0>>]

(* hist.pure: since the counter was last 0 with nothing in flight (at      *)
(* construction, or at a 'connected' notification of the only handle), the *)
(* caller called connect() at most once, to start, and every attempt ended *)
(* in a 'disconnected' notification of the current handle.  hist.log holds *)
(* the Reconnecting / ReconnectFailed events and automatic connect() calls *)
(* of that run.                                                            *)
PlainFailureRun == hist.pure /\ conn.maxRetries > 0

FailureRunOver ==
    /\ hist.log # <<>>
    /\ timers = {}
    /\ OpenHandles(handles) = {}

(* C4: in a plain failure run the Session emits Reconnecting 1..maxRetries, *)
(* each followed by one automatic connect(), and then one ReconnectFailed  *)
(* with attempts = maxRetries; the run comes to rest only after that.      *)
C4_ExactlyMaxRetriesAttempts ==
    PlainFailureRun =>
        /\ IsPrefix(hist.log, ExpectedFailureRun(conn.maxRetries))
        /\ FailureRunOver => hist.log = ExpectedFailureRun(conn.maxRetries)

C4_Witness ==
    /\ PlainFailureRun
    /\ conn.maxRetries = MaxRetriesCfg
    /\ hist.log = ExpectedFailureRun(conn.maxRetries)
    /\ emitted = <<EvDisconnected(FALSE), EvReconnectFailed(conn.maxRetries)>>

(* C5: once ReconnectFailed has been emitted there is no pending reconnect *)
(* timer and no automatic connect(), until the caller calls connect().     *)
C5_FailedIsTerminal ==
    /\ hist.failed => timers = {}
    /\ (lastOp.wasFailed /\ lastOp.op = "timer") => lastOp.connects = 0

C7_DisconnectDrivesReconnection ==
    (lastOp.op = "transportDisconnected" /\ ~lastOp.wasIntentional) =>
        \/ /\ "reconnecting" \in EmittedTypes(emitted)
           /\ lastOp.scheduled
           /\ conn.reconnectTimer \in timers
        \/ "reconnectFailed" \in EmittedTypes(emitted)

----------------------------------------------------------------------------
(* Properties of the classifier *)

(* The entity-changed part of the last message, if it has a payload *)
LastChange ==
    IF /\ lastOp.op = "transportMessage"
       /\ lastOp.msg[1].entityChanged # None
       /\ lastOp.msg[1].entityChanged[1].payload # None
    THEN Some([entityId |-> lastOp.msg[1].entityChanged[1].entityId,
               payload |-> lastOp.msg[1].entityChanged[1].payload[1]])
    ELSE None

(* What the classifier emitted for it (a team message of the same          *)
(* broadcast is emitted first)                                             *)
ClassifierEvents ==
    LET notChat(e) == e.type # "teamChat" IN SelectSeq(emitted, notChat)

StorageShape(p) == p.items # None /\ p.capacity # None

(* C8: a payload with an item list and a capacity, whatever the cache      *)
(* says, or any payload of an entity cached as StorageMonitor, yields      *)
(* exactly one StorageUpdated event and nothing else.                      *)
C8_StorageShapeWins ==
    LastChange # None =>
        LET e == LastChange[1].entityId
            p == LastChange[1].payload
        IN (StorageShape(p) \/ conn.entityTypeCache[e] = ENTITY_STORAGE_MONITOR) =>
              /\ Len(ClassifierEvents) = 1
              /\ ClassifierEvents[1].type = "storageUpdated"
              /\ ClassifierEvents[1].entityId = e
              /\ StorageShape(p) =>
                    ClassifierEvents = <<EvStorageUpdated(e, p.items[1], p.capacity[1])>>

(* Entity 5001, items = [], capacity = 24, cached as an Alarm *)
C8_Witness ==
    /\ LastChange # None
    /\ LastChange[1].entityId = 5001
    /\ LastChange[1].payload.items = Some(<<>>)
    /\ LastChange[1].payload.capacity = Some(24)
    /\ conn.entityTypeCache[5001] = ENTITY_ALARM
    /\ ClassifierEvents = <<EvStorageUpdated(5001, <<>>, 24)>>

MalformedChange(msg, c) ==
    /\ msg # None
    /\ msg[1].entityChanged # None
    /\ LET ec == msg[1].entityChanged[1]
       IN \/ ec.payload = None
          \/ /\ ~StorageShape(ec.payload[1])
             /\ ec.payload[1].value = None
             /\ c.entityTypeCache[ec.entityId] # ENTITY_STORAGE_MONITOR

----------------------------------------------------------------------------
(* Properties of the map poller *)

(* The Spawn and Despawn events of kind k among evs *)
EventsOf(evs, k) ==
    LET ofKind(e) == e.type \in {"spawn", "despawn"} /\ e.event = k
    IN SelectSeq(evs, ofKind)

(* The step just taken processed a snapshot for a run that was not stopped *)
SnapshotProcessed(op) ==
    /\ op.op = "mapMarkersResponse"
    /\ ~op.poll.wasStopped
    /\ op.poll.response[1].kind = "markers"

(* C12: the first tick of a run that processes a snapshot sets every       *)
(* timer's active flag to the observed presence, emits no Spawn or Despawn *)
(* and sends no chat message; from then on the run has its baseline until  *)
(* it is stopped, whatever the Session does in between and however the     *)
(* answers are delayed.                                                    *)
C12_FirstSnapshotIsBaseline ==
    /\ [](SnapshotProcessed(lastOp) /\ ~lastOp.poll.wasInitialized =>
            LET r == lastOp.poll.run
                present == Presence(lastOp.poll.response[1].markers)
            IN /\ emitted = <<>>
               /\ sent = <<>>
               /\ poller.runs[r].initialized
               /\ \A k \in Kinds : poller.runs[r].timers[k].active = present[k])
    /\ [][\A r \in RunIds :
            (poller.map = r /\ poller'.map = r /\ poller.runs[r].initialized) =>
                poller'.runs[r].initialized]_vars

(* The baseline of a run finds the cargo ship on the map while a later     *)
(* request of the same run is still in flight.                             *)
C12_Witness ==
    /\ SnapshotProcessed(lastOp)
    /\ ~lastOp.poll.wasInitialized
    /\ lastOp.poll.response[1].markers = {MARKER_CARGO_SHIP}
    /\ poller.runs[lastOp.poll.run].timers["cargo"].active
    /\ poller.runs[lastOp.poll.run].initialized
    /\ poller.runs[lastOp.poll.run].requests[conn.rustplus] > 0
    /\ emitted = <<>>
    /\ sent = <<>>

(* C13: on a tick after the baseline, for each kind: Spawn is emitted      *)
(* exactly when the marker is present and the flag was false, Despawn      *)
(* exactly when it is absent and the flag was true, nothing otherwise, and *)
(* the flag then equals the presence.  The events of one kind alternate:   *)
(* a Spawn is emitted only from flag false and a Despawn only from flag    *)
(* true, and between two events the flag of a run is not changed by any    *)
(* other step.                                                             *)
C13_EventIffPresenceChanged ==
    [][/\ (SnapshotProcessed(lastOp') /\ lastOp'.poll.wasInitialized) =>
            LET r == lastOp'.poll.run
                present == Presence(lastOp'.poll.response[1].markers)
            IN \A k \in Kinds :
                  /\ EventsOf(emitted', k) =
                        IF present[k] /\ ~poller.runs[r].timers[k].active
                        THEN <<EvSpawn(k)>>
                        ELSE IF ~present[k] /\ poller.runs[r].timers[k].active
                        THEN <<EvDespawn(k)>>
                        ELSE <<>>
                  /\ poller'.runs[r].timers[k].active = present[k]
       /\ \A r \in RunIds, k \in Kinds :
            (/\ poller.map = r /\ poller'.map = r /\ poller.runs[r].initialized
             /\ poller'.runs[r].timers[k].active # poller.runs[r].timers[k].active) =>
                /\ SnapshotProcessed(lastOp')
                /\ lastOp'.poll.run = r
                /\ EventsOf(emitted', k) # <<>>]_vars

(* One tick sees the cargo ship gone and the patrol helicopter arrived *)
C13_Witness ==
    /\ SnapshotProcessed(lastOp)
    /\ lastOp.poll.wasInitialized
    /\ lastOp.poll.response[1].markers = {MARKER_PATROL_HELICOPTER}
    /\ emitted = <<EvDespawn("cargo"), EvSpawn("heli")>>
    /\ ~poller.runs[lastOp.poll.run].timers["cargo"].active
    /\ poller.runs[lastOp.poll.run].timers["heli"].active

(* The tick or answer just handled is one that the poller gives up on: the *)
(* Session (fields c) is not connected or has no client, or the answer is  *)
(* an error or has no marker list.                                         *)
AbortedTick(op, c) ==
    /\ ~op.poll.wasStopped
    /\ \/ /\ op.op \in {"intervalTick", "startupTimeout"}
          /\ ~c.isConnected \/ c.rustplus = NULL
       \/ /\ op.op = "mapMarkersResponse"
          /\ op.poll.response[1].kind \in {"error", "noMarkers"}

(* C14: such a tick emits nothing, sends nothing and leaves the timers and *)
(* the initialized flag of its run as they were; the interval stays armed  *)
(* and no request is left in flight by it, so the next tick runs as usual. *)
C14_AbortedTickChangesNothing ==
    [][AbortedTick(lastOp', conn) =>
          LET r == lastOp'.poll.run
          IN /\ emitted' = <<>>
             /\ sent' = <<>>
             /\ poller'.runs[r].timers = poller.runs[r].timers
             /\ poller'.runs[r].initialized = poller.runs[r].initialized
             /\ poller'.runs[r].interval = poller.runs[r].interval
             /\ poller'.map = poller.map
             /\ \A h \in Handles :
                   poller'.runs[r].requests[h] <= poller.runs[r].requests[h]]_vars

(* The interval fires while the Session is disconnected, after the         *)
(* baseline found the cargo ship.                                          *)
C14_Witness ==
    /\ lastOp.op = "intervalTick"
    /\ AbortedTick(lastOp, conn)
    /\ ~conn.isConnected
    /\ poller.runs[lastOp.poll.run].initialized
    /\ poller.runs[lastOp.poll.run].timers["cargo"].active
    /\ emitted = <<>>

(* C15: stopPoller emits nothing, and a callback of a run that was stopped *)
(* before (an answer to a request issued earlier, the start-up timeout)    *)
(* emits no Spawn or Despawn and sends no chat message.                    *)
C15_NothingAfterStop ==
    /\ lastOp.op = "stopPoller" => emitted = <<>> /\ sent = <<>>
    /\ (/\ lastOp.op \in {"mapMarkersResponse", "startupTimeout", "intervalTick"}
        /\ lastOp.poll.wasStopped) =>
          /\ \A k \in Kinds : EventsOf(emitted, k) = <<>>
          /\ sent = <<>>


----------------------------------------------------------------------------
(* Properties of the alert bridge *)

(* The Session reports itself connected and holds a client *)
CanSend == conn.isConnected /\ conn.rustplus # NULL

AlarmEvents(evs) ==
    LET pick(ev) == ev.type = "alarmTriggered" IN SelectSeq(evs, pick)

(* C16: for a StorageUpdated event with capacity > 0 that the wired bridge *)
(* of a connected Session receives, an alert is sent exactly when the fill *)
(* ratio of the event is at least 9/10 and the previous such event of the  *)
(* same entity was below 9/10, or there was none; the alert names the      *)
(* item count and the capacity of the event.  Events of other entities     *)
(* play no part.                                                           *)
C16_AlertIffUpwardCrossing ==
    [][\A e \in Entities :
          (/\ bridge.wired
           /\ CanSend
           /\ PositiveStorageEvents(emitted', e) # <<>>) =>
             LET ev == PositiveStorageEvents(emitted', e)[1]
             IN IF FillAbove(ev) /\ hist.fill[e] # Some(TRUE)
                THEN /\ Len(sent') = 1
                     /\ sent'[1].text.alert = "almostFull"
                     /\ sent'[1].text.name.of = e
                     /\ sent'[1].text.items = Len(ev.items)
                     /\ sent'[1].text.capacity = ev.capacity
                ELSE sent' = <<>>]_vars

(* Entity 77 reaches 9 of 10 slots while entity 5001 is above the threshold *)
C16_Witness ==
    /\ CanSend
    /\ emitted = <<EvStorageUpdated(77, ItemsOf(9), 10)>>
    /\ sent = <<[text |-> AlmostFullText(RowName(77), 9, 10), failed |-> FALSE]>>
    /\ hist.fill[5001] = Some(TRUE)

(* items.length / capacity >= 0.9 as JavaScript computes it: n / 0 is      *)
(* Infinity for n > 0, and 0 / 0 is NaN, which compares false              *)
RatioAbove(ev) ==
    IF ev.capacity > 0 THEN FillAbove(ev) ELSE Len(ev.items) > 0

(* C17, as stated: after every StorageUpdated event of an entity, capacity *)
(* 0 included, the flag of the entity is (fill ratio >= threshold).        *)
C17_FlagUpdatedOnEveryEvent ==
    [][\A e \in Entities :
          (bridge.wired /\ StorageEvents(emitted', e) # <<>>) =>
             bridge'.storageAboveThreshold[e] =
                 Some(RatioAbove(StorageEvents(emitted', e)[1]))]_vars

(* C17, amended: after every StorageUpdated event with capacity > 0 the    *)
(* flag of the entity is (fill ratio >= 9/10), whether an alert was sent,  *)
(* skipped, failed or not due; an event that reports capacity 0 leaves the *)
(* flag as it was and sends nothing.                                       *)
C17_FlagFollowsPositiveCapacity ==
    [][\A e \in Entities :
          (bridge.wired /\ StorageEvents(emitted', e) # <<>>) =>
             LET ev == StorageEvents(emitted', e)[1]
             IN IF ev.capacity > 0
                THEN bridge'.storageAboveThreshold[e] = Some(FillAbove(ev))
                ELSE /\ bridge'.storageAboveThreshold[e] =
                            bridge.storageAboveThreshold[e]
                     /\ sent' = <<>>]_vars

(* The send of the alert of entity 77 failed, and its flag is set *)
C17_Witness ==
    /\ emitted = <<EvStorageUpdated(77, ItemsOf(10), 10)>>
    /\ Len(sent) = 1
    /\ sent[1].failed
    /\ bridge.storageAboveThreshold[77] = Some(TRUE)

(* C18: every AlarmTriggered event of a Session with a wired bridge leads  *)
(* to exactly one alert text handed to the team channel, whatever the      *)
(* state of the Session.                                                   *)
C18_EveryAlarmIsForwarded ==
    [][(bridge.wired /\ AlarmEvents(emitted') # <<>>) =>
          /\ Len(sent') = 1
          /\ sent'[1].text.alert = "alarm"
          /\ sent'[1].text.name.of = AlarmEvents(emitted')[1].entityId]_vars

(* C25: a wireBroadcasters call on a Session that is already wired changes *)
(* nothing, so the listeners of the bridge are attached at most once; a    *)
(* notification then hands at most one alert to the channel, and on a      *)
(* Session that can send exactly one for an AlarmTriggered event and for a *)
(* StorageUpdated event that crosses the threshold upwards.                *)
C25_WiringIsIdempotent ==
    [][/\ (lastOp'.op = "wireBroadcasters" /\ bridge.wired) =>
              /\ bridge' = bridge
              /\ conn' = conn
              /\ sent' = <<>>
       /\ bridge'.listeners = (IF bridge'.wired THEN 1 ELSE 0)
       /\ Len(sent') <= 1
       /\ (bridge.wired /\ CanSend /\ AlarmEvents(emitted') # <<>>) =>
              Len(sent') = 1
       /\ \A e \in Entities :
              (/\ bridge.wired
               /\ CanSend
               /\ PositiveStorageEvents(emitted', e) # <<>>
               /\ FillAbove(PositiveStorageEvents(emitted', e)[1])
               /\ hist.fill[e] # Some(TRUE)) =>
                  Len(sent') = 1]_vars

(* wireBroadcasters was called on the wired Session again, and the alarm of *)
(* entity 77 went out once                                                  *)
C25_Witness ==
    /\ hist.rewired
    /\ AlarmEvents(emitted) = <<EvAlarmTriggered(77)>>
    /\ Len(sent) = 1
    /\ sent[1].text.alert = "alarm"

(* C19: a notification handled with the bridge wired, whatever the outcome *)
(* of the lookup and of the send: no exception reaches the emitter, and    *)
(* the Session, its timers and its handles are as before; when the lookup  *)
(* throws and an alert is due on a connected Session, the alert is handed  *)
(* to the channel with the raw entity identifier as the name.              *)
C19_BridgeFailuresAreContained ==
    [][(bridge.wired /\ lastOp'.op = "transportMessage") =>
          /\ ~lastOp'.caught
          /\ ~lastOp'.threw
          /\ conn' = conn
          /\ timers' = timers
          /\ handles' = handles
          /\ (lastOp'.db = "throws" /\ CanSend) =>
                \A e \in Entities :
                    /\ EvAlarmTriggered(e) \in {emitted'[i] : i \in 1..Len(emitted')} =>
                          /\ Len(sent') = 1
                          /\ sent'[1].text = AlarmText(RawName(e))
                    /\ (/\ PositiveStorageEvents(emitted', e) # <<>>
                        /\ FillAbove(PositiveStorageEvents(emitted', e)[1])
                        /\ hist.fill[e] # Some(TRUE)) =>
                          /\ Len(sent') = 1
                          /\ sent'[1].text.name = RawName(e)]_vars

(* The lookup threw, the send threw, and the alarm of entity 77 went out   *)
(* under its raw identifier                                                *)
C19_Witness ==
    /\ lastOp.op = "transportMessage"
    /\ lastOp.db = "throws"
    /\ ~lastOp.caught
    /\ sent = <<[text |-> AlarmText(RawName(77)), failed |-> TRUE]>>


----------------------------------------------------------------------------
(* Properties of the registry *)

(* The positions of call s in the calls of the last registry function *)
Calls(st, s) == {i \in 1..Len(st) : st[i] = s}

(* The first Session was made and the registry no longer holds it *)
FirstRetired == registry.firstCreated /\ registry.holds # "first"

(* C20: a createConnection for the address whose Session is registered     *)
(* calls disconnect() of that Session exactly once, before the new Session *)
(* is put in the map and before it is connected; the call leaves the old   *)
(* Session with its intentional-close flag set, its reconnect timer        *)
(* cancelled and its handle no longer open.  From then on no step makes    *)
(* the old Session call connect() or schedule a reconnect.                 *)
C20_ReplacedSessionIsDisconnectedFirst ==
    /\ [](FirstRetired =>
            /\ lastOp.connects = 0
            /\ ~lastOp.scheduled
            /\ conn.intentionalClose
            /\ conn.reconnectTimer = NULL)
    /\ [][(registry.holds = "first" /\ lastOp'.op = "createConnection") =>
            LET st == lastOp'.steps
            IN /\ Cardinality(Calls(st, "disconnect first")) = 1
               /\ Calls(st, "set") # {}
               /\ Calls(st, "connect") # {}
               /\ \A d \in Calls(st, "disconnect first") :
                     \A n \in Calls(st, "set") \cup Calls(st, "connect") : d < n
               /\ registry'.holds = "other"
               /\ registry'.other.connects = 1
               /\ conn'.intentionalClose
               /\ conn'.reconnectTimer = NULL
               /\ conn.reconnectTimer # NULL => conn.reconnectTimer \notin timers'
               /\ conn.rustplus # NULL => ~IsOpen(handles'[conn.rustplus])]_vars

(* The second createConnection found the first Session with an open handle *)
C20_Witness ==
    /\ lastOp.op = "createConnection"
    /\ lastOp.steps =
          <<"disconnect first", "delete", "construct", "set", "connect",
            "wireBroadcasters", "startPoller">>
    /\ lastOp.hadHandle
    /\ registry.holds = "other"
    /\ \E h \in Handles : handles[h] = "closing"


RegistryOps == {"createConnection", "createConnectionRejected", "removeConnection"}

(* C21: getConnection returns the Session made by the latest               *)
(* createConnection that made one, unless a removeConnection followed it,  *)
(* and none otherwise: a createConnection that returns a Session leaves    *)
(* that new Session registered, one that throws has made none and leaves   *)
(* the registration as it was, and nothing but the registry functions      *)
(* changes it.  removeConnection returns true exactly when a Session was   *)
(* registered, and then has disconnected it, stopped its poller and only   *)
(* then deleted the entry; otherwise it returns false and changes nothing. *)
C21_RegistryHoldsLatestSession ==
    [][/\ (lastOp'.op = "createConnection" /\ ~lastOp'.threw) =>
             /\ lastOp'.ret = Some(registry.made + 1)
             /\ getConnection(registry') = registry.made + 1
       /\ (lastOp'.op = "createConnectionRejected") =>
             /\ lastOp'.threw
             /\ getConnection(registry') = getConnection(registry)
       /\ (lastOp'.op = "removeConnection" /\ getConnection(registry) # NULL) =>
             LET st == lastOp'.steps
             IN /\ lastOp'.ret = Some(TRUE)
                /\ getConnection(registry') = NULL
                /\ Len(st) = 3
                /\ st[1] \in {"disconnect first", "disconnect other"}
                /\ st[2] = "stopPoller"
                /\ st[3] = "delete"
                /\ registry.holds = "first" =>
                      /\ conn'.intentionalClose
                      /\ conn'.rustplus = NULL
                      /\ poller'.map = NoRun
       /\ (lastOp'.op = "removeConnection" /\ getConnection(registry) = NULL) =>
             /\ lastOp'.ret = Some(FALSE)
             /\ registry' = registry
             /\ conn' = conn
             /\ poller' = poller
       /\ lastOp'.op \notin RegistryOps => registry' = registry]_vars


----------------------------------------------------------------------------
(* Properties of the event log *)

(* What a handler leaves behind: the Session, its timers and handles, the  *)
(* events emitted with their payloads, and whether the handler of the      *)
(* transport had to catch an exception                                     *)
Outcome(r) ==
    [c |-> r.c, timers |-> r.timers,
     handles |-> Dropped(r.handles, r.c.rustplus),
     emitted |-> r.emitted, caught |-> r.caught]

(* C22: a step during which the write of the event log raised leaves what *)
(* the same notification leaves when the write succeeds: the same events   *)
(* with the same payloads, the same connected flag, reconnect counter and  *)
(* timer, and no exception for the caller.                                 *)
C22_LogFailureChangesNothing ==
    [][lastOp'.logFailed =>
          LET post == [c |-> conn', timers |-> timers', handles |-> handles',
                       emitted |-> emitted', caught |-> lastOp'.caught]
          IN /\ ~lastOp'.threw
             /\ emitted' # <<>>
             /\ lastOp'.op = "transportConnected" =>
                   \E h \in Handles :
                       /\ handles[h] = "connecting"
                       /\ post = Outcome(LoggedConnected(h, FALSE))
             /\ lastOp'.op = "transportDisconnected" =>
                   \E h \in Handles :
                       /\ handles[h] \in {"connecting", "connected", "closing"}
                       /\ post = Outcome(LoggedDisconnected(h, FALSE))
             /\ lastOp'.op = "transportMessage" =>
                   post = Outcome(LoggedMessage(lastOp'.msg[1], FALSE))
             /\ lastOp'.op = "timer" =>
                   \E t \in timers, outcome \in ConnectOutcomes :
                       post = Outcome(LoggedTimer(t, outcome, FALSE))
             /\ lastOp'.op = "connect" =>
                   \E outcome \in ConnectOutcomes :
                       post = Outcome(LoggedConnect(outcome, FALSE))]_vars

(* The write raised while an unexpected close was processed: Disconnected  *)
(* and Reconnecting were emitted and the timer is set                      *)
C22_Witness ==
    /\ lastOp.logFailed
    /\ lastOp.op = "transportDisconnected"
    /\ emitted = <<EvDisconnected(FALSE),
                   EvReconnecting(1, getReconnectDelay(NewConnection(1)))>>
    /\ conn.reconnectTimer # NULL
    /\ conn.reconnectAttempt = 1


----------------------------------------------------------------------------
(* Properties of failed connection attempts *)

(* d is min(initialDelay * multiplier^(k-1), maxDelay), for the delay d    *)
(* announced with attempt k                                                *)
DelayIs(d, k) ==
    LET grown == initialDelayMs * Pow(backoffMultiplierNum, k - 1)
        scale == Pow(backoffMultiplierDen, k - 1)
    IN IF grown <= maxDelayMs * scale
       THEN d.num * scale = grown * d.den
       ELSE d.num = maxDelayMs * d.den

(* What follows the event first when a connection attempt has failed with  *)
(* the counter at conn.reconnectAttempt: at the ceiling ReconnectFailed    *)
(* and nothing else; below it the counter goes up by one, Reconnecting     *)
(* announces the new count and its delay, and the timer is set (unless a   *)
(* listener of 'reconnecting' raises).                                     *)
FailureHandled(first) ==
    LET a == conn.reconnectAttempt
    IN IF conn.maxRetries > 0 /\ a >= conn.maxRetries
       THEN /\ emitted' = <<first, EvReconnectFailed(a)>>
            /\ conn'.reconnectAttempt = a
            /\ ~lastOp'.scheduled
            /\ ~lastOp'.threw
       ELSE /\ Len(emitted') = 2
            /\ emitted'[1] = first
            /\ emitted'[2].type = "reconnecting"
            /\ emitted'[2].attempt = a + 1
            /\ DelayIs(emitted'[2].delayMs, a + 1)
            /\ conn'.reconnectAttempt = a + 1
            /\ IF "reconnecting" \in subscribers.throws
               THEN ~lastOp'.scheduled
               ELSE /\ lastOp'.scheduled
                    /\ conn'.reconnectTimer \in timers'
                    /\ ~lastOp'.threw

(* The step called connect() and no handshake was started on a new handle *)
ConnectFailed ==
    /\ lastOp'.connects = 1
    /\ ~(/\ conn'.rustplus # NULL
         /\ handles[conn'.rustplus] = "free"
         /\ handles'[conn'.rustplus] = "connecting")

(* C23: when the construction of the handle or the start of the handshake *)
(* raises in connect(), connect() emits an error event and then does what  *)
(* an unexpected close does after its Disconnected event: the same counter *)
(* increment, the same delay, the same ceiling; the exception of the       *)
(* transport does not leave connect().                                     *)
C23_ConnectFailureSchedulesReconnect ==
    [][/\ ConnectFailed => FailureHandled(EvError)
       /\ (/\ lastOp'.op = "transportDisconnected"
           /\ ~conn.intentionalClose
           /\ "disconnected" \notin subscribers.throws) =>
             FailureHandled(EvDisconnected(FALSE))]_vars

(* The handshake could not be started by the timer callback at the ceiling *)
C23_Witness ==
    /\ lastOp.op = "timer"
    /\ lastOp.connects = 1
    /\ ~lastOp.threw
    /\ emitted = <<EvError, EvReconnectFailed(conn.maxRetries)>>


----------------------------------------------------------------------------
(* Grid labels: the coordinates of a marker and the map size of the poller *)
(* state (0 until the server has reported it) are given to _coordToGrid    *)

GridInputs ==
    [x : {-1, 0, 149, 150, 300, 3899, 3900, 4499},
     y : {0, 3850, 3851, 4000},
     mapSize : {NULL, 4000, 4500}]

InitGrid == InitArgs(WellBehaved, {1}, {Some(i) : i \in GridInputs})

CoordToGrid ==
    /\ lastOp.op = "new"
    /\ lastOp' = [lastOp EXCEPT
                     !.op = "coordToGrid",
                     !.ret = Some(coordToGrid(lastOp.msg[1].x, lastOp.msg[1].y,
                                              lastOp.msg[1].mapSize))]
    /\ UNCHANGED <<conn, handles, timers, subscribers, emitted, hist, poller,
                   bridge, registry, sent, peer>>

NextGrid == CoordToGrid

SpecGrid == InitGrid /\ [][NextGrid]_vars

(* C26: for a known map size the label is the letter with index            *)
(* floor(x / 150), counted from "A", followed by floor((mapSize - y) / 150) *)
(* + 1; for a map size of 0 or none it is the unknown label.               *)
C26_GridLabel ==
    lastOp.op = "coordToGrid" =>
        LET in == lastOp.msg[1]
            label == lastOp.ret[1]
        IN IF in.mapSize = NULL THEN label = UnknownGrid
           ELSE /\ label.colLetter # None
                /\ label.colLetter[1] \in CHAR_A .. (CHAR_A + 25)
                /\ label.colLetter[1] - CHAR_A = in.x \div 150
                /\ label.row = Some(((in.mapSize - in.y) \div 150) + 1)

----------------------------------------------------------------------------
(* Timer texts: a timer of the poller state is given to _timerLine (by     *)
(* getTimerSummary) or to getSingleTimerMessage at some later time         *)

SpawnTime == 500000       \* the time of a recorded spawn
DespawnTime == 1000000    \* the time of a recorded despawn

(* The timers that _blankTimer and _processEvent produce *)
TimerStates ==
    {t \in [active : BOOLEAN,
            spawnedAt : {None, Some(SpawnTime)},
            despawnedAt : {None, Some(DespawnTime)}] :
        IF t.active THEN t.spawnedAt # None
        ELSE t.spawnedAt # None => t.despawnedAt # None}

(* Milliseconds between the despawn and the call *)
ElapsedTimes ==
    {0, 1, 600000, 899999, 900000, 1770000, 1799999, 1800000, 1800001,
     2400000, 6300000, 8999999, 9000000}

TimerInputs ==
    [fn : {"timerLine", "getSingleTimerMessage"},
     eventName : Kinds,
     timer : TimerStates,
     now : {DespawnTime + e : e \in ElapsedTimes}]

InitTimerText == InitArgs(WellBehaved, {1}, {Some(i) : i \in TimerInputs})

TimerLine ==
    /\ lastOp.op = "new"
    /\ lastOp.msg[1].fn = "timerLine"
    /\ lastOp' = [lastOp EXCEPT
                     !.op = "timerLine",
                     !.ret = Some(timerLine(lastOp.msg[1].eventName,
                                            lastOp.msg[1].timer,
                                            lastOp.msg[1].now))]
    /\ UNCHANGED <<conn, handles, timers, subscribers, emitted, hist, poller,
                   bridge, registry, sent, peer>>

GetSingleTimerMessage ==
    /\ lastOp.op = "new"
    /\ lastOp.msg[1].fn = "getSingleTimerMessage"
    /\ lastOp' = [lastOp EXCEPT
                     !.op = "getSingleTimerMessage",
                     !.ret = Some(getSingleTimerMessage(lastOp.msg[1].eventName,
                                                        lastOp.msg[1].timer,
                                                        lastOp.msg[1].now))]
    /\ UNCHANGED <<conn, handles, timers, subscribers, emitted, hist, poller,
                   bridge, registry, sent, peer>>

NextTimerText == TimerLine \/ GetSingleTimerMessage

SpecTimerText == InitTimerText /\ [][NextTimerText]_vars

(* Minutes of a reported duration *)
Minutes(d) == 60 * d.hours + d.mins

(* C27: for an inactive timer with a despawn time, with remaining = window *)
(* of the kind - time since the despawn: if remaining > 0 the text names   *)
(* remaining, to the minute; if remaining <= 0 the text is "may have       *)
(* already respawned" and names no duration; no text names a negative      *)
(* duration.  An active timer is reported as active whatever its despawn   *)
(* time.                                                                   *)
C27_RespawnEstimate ==
    lastOp.op \in {"timerLine", "getSingleTimerMessage"} =>
        LET in == lastOp.msg[1]
            text == lastOp.ret[1]
            remaining == RESPAWN_MS[in.eventName]
                            - (in.now - in.timer.despawnedAt[1])
        IN /\ in.timer.active => text.form = "active" /\ text.next = None
           /\ (~in.timer.active /\ in.timer.despawnedAt # None) =>
                 IF remaining > 0
                 THEN /\ text.form = "down"
                      /\ text.next # None
                      /\ 60000 * Minutes(text.next[1]) - remaining \in -30000..30000
                      /\ text.next[1].mins \in 0..59
                 ELSE text.form = "respawned" /\ text.next = None
           /\ text.next # None =>
                 text.next[1].hours >= 0 /\ text.next[1].mins >= 0

(* A Bradley that despawned 10 minutes ago is next in about 20 minutes *)
C27_Witness ==
    /\ lastOp.op = "timerLine"
    /\ lastOp.msg[1].eventName = "bradley"
    /\ ~lastOp.msg[1].timer.active
    /\ lastOp.msg[1].now - DespawnTime = 600000
    /\ lastOp.ret = Some(TimerText("down", Some(DespawnTime),
                                    Some([hours |-> 0, mins |-> 20])))

----------------------------------------------------------------------------
(* Properties of the announced delays *)

(* Fractions of milliseconds: d = n, and d1 <= d2 *)
IsMs(d, n) == d.num = n * d.den
AtMost(d1, d2) == d1.num * d2.den <= d2.num * d1.den

(* d is min(initialDelay * multiplier^(k-1), maxDelay) for the config of   *)
(* the Session                                                             *)
IsBackoff(d, k) ==
    LET grown == conn.initialDelayMs * Pow(backoffMultiplierNum, k - 1)
        scale == Pow(backoffMultiplierDen, k - 1)
    IN IF grown <= conn.maxDelayMs * scale
       THEN d.num * scale = grown * d.den
       ELSE IsMs(d, conn.maxDelayMs)

(* hist.reconnectings counts the Reconnecting events since the last        *)
(* Connected event, hist.lastDelay is the delay of the latest of them.     *)

(* C28, as stated: the k-th Reconnecting event since the last Connected    *)
(* transition announces min(initialDelay * multiplier^(k-1), maxDelay);    *)
(* the first announces initialDelay; no delay is below the one before it   *)
(* and none exceeds maxDelay.                                              *)
C28_BackoffDelays ==
    [][\A i \in 1..Len(ReconnectingEvents(emitted')) :
          LET d == ReconnectingEvents(emitted')[i].delayMs
              k == hist.reconnectings + i
          IN /\ IsBackoff(d, k)
             /\ k = 1 => IsMs(d, conn.initialDelayMs)
             /\ (i = 1 /\ hist.lastDelay # None) => AtMost(hist.lastDelay[1], d)
             /\ d.num <= conn.maxDelayMs * d.den]_vars

(* C28, amended: the same, with the first delay min(initialDelay,          *)
(* maxDelay): it is initialDelay when initialDelay <= maxDelay.            *)
C28_BackoffDelaysCapped ==
    [][\A i \in 1..Len(ReconnectingEvents(emitted')) :
          LET d == ReconnectingEvents(emitted')[i].delayMs
              k == hist.reconnectings + i
          IN /\ IsBackoff(d, k)
             /\ k = 1 => IF conn.initialDelayMs <= conn.maxDelayMs
                         THEN IsMs(d, conn.initialDelayMs)
                         ELSE IsMs(d, conn.maxDelayMs)
             /\ (i = 1 /\ hist.lastDelay # None) => AtMost(hist.lastDelay[1], d)
             /\ d.num <= conn.maxDelayMs * d.den]_vars

(* The third Reconnecting event in a row announces the cap, after a second *)
(* that announced less                                                     *)
C28_Witness ==
    /\ conn.maxDelayMs = 2 * initialDelayMs
    /\ hist.reconnectings = 3
    /\ ReconnectingEvents(emitted) # <<>>
    /\ IsMs(ReconnectingEvents(emitted)[1].delayMs, conn.maxDelayMs)
    /\ hist.lastDelay = Some(ReconnectingEvents(emitted)[1].delayMs)

----------------------------------------------------------------------------
(* EventTimers: the timers of one poller state object, from startPoller    *)
(* on, under the snapshots that the callback of _tick processes            *)

NewPollerState ==
    [timers |-> [k \in Kinds |-> blankEventTimer], initialized |-> FALSE]

InitTimers ==
    InitFrom({NewConnection(1)}, WellBehaved,
             {[NoOp EXCEPT !.ret = Some(NewPollerState)]})

SnapshotProcessedByTimers ==
    \E markers \in MarkerLists, raisesAt \in Kinds \cup {"none"} :
        /\ lastOp' = [lastOp EXCEPT
                         !.op = "snapshot",
                         !.msg = Some([markers |-> markers, raisesAt |-> raisesAt]),
                         !.ret = Some(snapshotTimers(lastOp.ret[1], markers,
                                                     raisesAt))]
        /\ UNCHANGED <<conn, handles, timers, subscribers, emitted, hist, poller,
                       bridge, registry, sent, peer>>

NextTimers == SnapshotProcessedByTimers

SpecTimers == InitTimers /\ [][NextTimers]_vars

NeverObserved(t) == ~t.active /\ t.spawnedAt = None /\ t.despawnedAt = None
ActiveSince(t) == t.active /\ t.spawnedAt # None
InactiveSince(t) == ~t.active /\ t.despawnedAt # None

(* C30: every timer is never observed (inactive, no spawn time, no despawn *)
(* time), or active with a spawn time, or inactive with a despawn time,    *)
(* and in one of these only; so no timer is inactive with a spawn time and *)
(* no despawn time, or active with no spawn time.                          *)
C30_TimerStates ==
    \A k \in Kinds :
        LET t == lastOp.ret[1].timers[k]
        IN /\ Cardinality({i \in 1..3 :
                  <<NeverObserved(t), ActiveSince(t), InactiveSince(t)>>[i]}) = 1
           /\ ~(~t.active /\ t.spawnedAt # None /\ t.despawnedAt = None)
           /\ ~(t.active /\ t.spawnedAt = None)

(* The cargo ship is active again after a despawn, the rig was seen and    *)
(* has gone, the helicopter was never seen                                 *)
C30_Witness ==
    LET ts == lastOp.ret[1].timers
    IN /\ lastOp.op = "snapshot"
       /\ ts["cargo"] = [active |-> TRUE, spawnedAt |-> Some(newDate),
                         despawnedAt |-> Some(newDate)]
       /\ InactiveSince(ts["oilrig"])
       /\ NeverObserved(ts["heli"])

----------------------------------------------------------------------------
(* Properties of two Sessions of different addresses *)

(* C29: no operation or notification on the Session registered for AddrA   *)
(* (connect, disconnect, transport notifications, timer firings, poll      *)
(* ticks, createConnection and removeConnection for AddrA) changes the     *)
(* Session registered for AddrB: its registry entry, its entity-type       *)
(* cache, its poller state and its timers stay as they were.               *)
C29_OtherSessionUntouched == [][peer' = peer]_vars

(* removeConnection(AddrA) has removed a Session of AddrA and its poller   *)
(* run while the Session of AddrB is registered and polled                 *)
C29_Witness ==
    /\ peer.registered /\ peer.polled /\ peer.activeTimers # {}
    /\ lastOp.op = "removeConnection" /\ lastOp.ret = Some(TRUE)
    /\ registry.made >= 2

----------------------------------------------------------------------------
(* Properties of the entity-type cache *)

----------------------------------------------------------------------------
(* Properties of the lifetime of the EventTimers *)

(* The timers and the baseline flag of the poller state of slot r *)
TimersOf(p, r) == <<p.runs[r].timers, p.runs[r].initialized>>

(* C31: startPoller registers a poller state with four blank timers and no *)
(* baseline; after stopPoller getTimerState returns none; and a step that  *)
(* is neither of the two nor the processing of a marker answer (connect(), *)
(* disconnect(), a notification of the transport with the classifier and   *)
(* bridge events it leads to, the reconnect timer, a tick that only sends  *)
(* a request) leaves the timers and the baseline flag of every poller      *)
(* state, and what getTimerState returns, as they were.                    *)
C31_TimersChangeOnlyInDiff ==
    [][/\ (lastOp'.op = "startPoller" /\ poller'.map # NoRun) =>
             /\ getTimerState(poller') = Some([k \in Kinds |-> blankTimer])
             /\ ~poller'.runs[poller'.map].initialized
       /\ lastOp'.op = "stopPoller" => getTimerState(poller') = None
       /\ lastOp'.op \notin {"startPoller", "stopPoller", "mapMarkersResponse"} =>
             /\ getTimerState(poller') = getTimerState(poller)
             /\ \A r \in RunIds :
                   poller.runs[r].used /\ poller'.runs[r].used =>
                       TimersOf(poller', r) = TimersOf(poller, r)
       /\ lastOp'.op = "mapMarkersResponse" =>
             \A r \in RunIds \ {lastOp'.poll.run} :
                   poller.runs[r].used /\ poller'.runs[r].used =>
                       TimersOf(poller', r) = TimersOf(poller, r)]_vars

(* The Session has lost its connection and scheduled a reconnect while the *)
(* registered poller state has its baseline and an active cargo timer      *)
C31_Witness ==
    /\ lastOp.op = "transportDisconnected"
    /\ timers # {}
    /\ poller.map # NoRun
    /\ poller.runs[poller.map].initialized
    /\ poller.runs[poller.map].timers["cargo"].active

----------------------------------------------------------------------------
(* The rig event: one poller state object under consecutive snapshots,     *)
(* each kept beside the one before it                                      *)

RigSnapshotProcessed ==
    \E markers \in MarkerLists :
        /\ lastOp' = [lastOp EXCEPT
                         !.op = "snapshot",
                         !.msg = Some([markers |-> markers,
                                       previous |-> IF lastOp.msg = None THEN None
                                                    ELSE Some(lastOp.msg[1].markers)]),
                         !.ret = Some(snapshotTimers(lastOp.ret[1], markers,
                                                     "none"))]
        /\ emitted' = snapshotEvents(lastOp.ret[1], markers)
        /\ UNCHANGED <<conn, handles, timers, subscribers, hist, poller, bridge,
                       registry, sent, peer>>

NextRig == RigSnapshotProcessed

SpecRig == InitTimers /\ [][NextRig]_vars

(* The rig markers of a snapshot *)
RigMarkers(markers) == markers \cap {MARKER_CRATE, MARKER_CH47}

(* C32: the rig event is present in a snapshot exactly when the snapshot   *)
(* holds a locked-crate marker or a CH47 marker, and the rig timer is      *)
(* active after the snapshot exactly then; when the snapshot before had a  *)
(* rig marker and this one has one, of the same kind or of the other, the  *)
(* rig timer stays active and neither Spawn nor Despawn is emitted for     *)
(* the rig.                                                                *)
C32_RigIsEitherMarker ==
    lastOp.op = "snapshot" =>
        LET m == lastOp.msg[1].markers
            previous == lastOp.msg[1].previous
        IN /\ Presence(m)["oilrig"] = (MARKER_CRATE \in m \/ MARKER_CH47 \in m)
           /\ lastOp.ret[1].timers["oilrig"].active = (RigMarkers(m) # {})
           /\ (previous # None /\ RigMarkers(previous[1]) # {}
                 /\ RigMarkers(m) # {}) =>
                  /\ lastOp.ret[1].timers["oilrig"].active
                  /\ EventsOf(emitted, "oilrig") = <<>>

(* The locked crate of one snapshot is replaced by a CH47 in the next      *)
C32_Witness ==
    /\ lastOp.op = "snapshot"
    /\ lastOp.msg[1].previous = Some({MARKER_CRATE})
    /\ lastOp.msg[1].markers = {MARKER_CH47}
    /\ lastOp.ret[1].timers["oilrig"].active
    /\ emitted = <<>>

----------------------------------------------------------------------------
(* Properties of notifications from handles the Session has let go *)

(* The handle whose 'connected' or 'disconnected' notification the step    *)
(* handled: the one whose state the step changed                           *)
Notifier(hs, hs2) ==
    {h \in Handles : /\ hs[h] \in {"connecting", "connected", "closing"}
                     /\ hs2[h] # hs[h]}

(* C33: a 'connected' or 'disconnected' notification of a handle that is   *)
(* not the one the Session holds leaves the connected flag, the reconnect  *)
(* counter and the reconnect timer as they were and schedules no           *)
(* reconnect; an 'error' or 'message' notification does so from whatever   *)
(* handle it comes.                                                        *)
C33_StaleNotificationsAreIgnored ==
    [][/\ lastOp'.op \in {"transportConnected", "transportDisconnected"} =>
             \A h \in Notifier(handles, handles') :
                 h # conn.rustplus =>
                     /\ conn'.isConnected = conn.isConnected
                     /\ conn'.reconnectAttempt = conn.reconnectAttempt
                     /\ conn'.reconnectTimer = conn.reconnectTimer
                     /\ timers' = timers
                     /\ ~lastOp'.scheduled
       /\ lastOp'.op \in {"transportError", "transportMessage"} =>
             /\ conn'.isConnected = conn.isConnected
             /\ conn'.reconnectAttempt = conn.reconnectAttempt
             /\ conn'.reconnectTimer = conn.reconnectTimer
             /\ timers' = timers
             /\ ~lastOp'.scheduled]_vars

----------------------------------------------------------------------------
(* Properties of the connected flag *)

(* C34: while isConnected() is true the Session holds a transport handle   *)
(* and its intentional-close flag is false; and from disconnect() on,      *)
(* isConnected() is false until a 'connected' notification that follows a  *)
(* later connect().                                                        *)
C34_ConnectedImpliesHandle ==
    /\ conn.isConnected => conn.rustplus # NULL /\ ~conn.intentionalClose
    /\ hist.explicitlyDisconnected => ~conn.isConnected

----------------------------------------------------------------------------
(* Properties of the pending reconnect timers *)

(* C35: every timeout that was set and has neither fired nor been          *)
(* cancelled is the one recorded in the Session's timer handle, so at most *)
(* one is pending; after connect() and after disconnect() none is pending  *)
(* that was set before the call.                                           *)
C35_AtMostOnePendingTimer ==
    /\ timers \subseteq {conn.reconnectTimer} \ {NULL}
    /\ Cardinality(timers) <= 1
    /\ lastOp.op = "disconnect" => timers = {}
    /\ (lastOp.op = "connect" /\ ~lastOp.scheduled) => timers = {}

----------------------------------------------------------------------------
(* Properties of the Session after the retry ceiling *)

(* The counter is at the configured ceiling *)
AtCeiling(c) == c.maxRetries > 0 /\ c.reconnectAttempt = c.maxRetries

(* C36: ReconnectFailed is emitted with the counter at the ceiling only.   *)
(* With the counter at the ceiling, connect() leaves the counter as it is; *)
(* a 'disconnected' notification that is not intentional is followed by    *)
(* ReconnectFailed at once, sets no timer and leaves the counter as it is; *)
(* and the counter leaves the ceiling only by a 'connected' notification,  *)
(* which sets it to 0.                                                     *)
C36_ConnectKeepsCounter ==
    [][/\ "reconnectFailed" \in EmittedTypes(emitted') => AtCeiling(conn')
       /\ AtCeiling(conn) =>
             /\ lastOp'.op = "connect" =>
                   conn'.reconnectAttempt = conn.reconnectAttempt
             /\ (lastOp'.op = "transportDisconnected"
                   /\ ~conn.intentionalClose) =>
                   /\ emitted' = <<EvDisconnected(FALSE),
                                    EvReconnectFailed(conn.maxRetries)>>
                   /\ ~lastOp'.scheduled
                   /\ timers' = timers
                   /\ conn'.reconnectAttempt = conn.reconnectAttempt
             /\ conn'.reconnectAttempt # conn.reconnectAttempt =>
                   /\ lastOp'.op = "transportConnected"
                   /\ conn'.reconnectAttempt = 0]_vars

(* The caller has called connect() after ReconnectFailed: a handshake is   *)
(* under way on a new handle, no timer is pending and the counter is still *)
(* at the ceiling of two retries                                           *)
C36_Witness ==
    /\ lastOp.op = "connect"
    /\ lastOp.wasFailed
    /\ conn.maxRetries = 2
    /\ AtCeiling(conn)
    /\ conn.rustplus # NULL
    /\ handles[conn.rustplus] = "connecting"
    /\ timers = {}

----------------------------------------------------------------------------
(* Properties of a Session without a retry ceiling *)

(* C37: with maxRetries = 0 the Session never emits ReconnectFailed; every *)
(* 'disconnected' notification that is not intentional is followed by      *)
(* Reconnecting with the counter one higher and by a pending timer; and    *)
(* the counter never goes down except to 0 by a 'connected' notification,  *)
(* so it grows with every failure for as long as no handshake succeeds.    *)
C37_NoCeilingWithZeroRetries ==
    [][conn.maxRetries = 0 =>
          /\ "reconnectFailed" \notin EmittedTypes(emitted')
          /\ (lastOp'.op = "transportDisconnected" /\ ~conn.intentionalClose) =>
                /\ emitted' = <<EvDisconnected(FALSE),
                                 EvReconnecting(conn.reconnectAttempt + 1,
                                                getReconnectDelay(conn))>>
                /\ lastOp'.scheduled
                /\ conn'.reconnectAttempt = conn.reconnectAttempt + 1
                /\ conn'.reconnectTimer # NULL
                /\ conn'.reconnectTimer \in timers'
          /\ conn'.reconnectAttempt < conn.reconnectAttempt =>
                /\ lastOp'.op = "transportConnected"
                /\ conn'.reconnectAttempt = 0]_vars

(* The counter has passed every ceiling the Session can be configured with *)
(* and the next reconnect is scheduled                                     *)
C37_Witness ==
    /\ conn.maxRetries = 0
    /\ lastOp.op = "transportDisconnected"
    /\ conn.reconnectAttempt > MaxRetriesCfg
    /\ lastOp.scheduled
    /\ timers # {}

----------------------------------------------------------------------------
(* Properties of a rejected createConnection *)

(* C38: a createConnection call that throws for its config leaves the      *)
(* registry as it was and does not disconnect the Session registered for   *)
(* the address: the Session, its handles and its timers are unchanged.     *)
C38_RejectedCreateChangesNothing ==
    [][lastOp'.op = "createConnectionRejected" =>
          /\ lastOp'.threw
          /\ registry' = registry
          /\ Calls(lastOp'.steps, "disconnect first") = {}
          /\ Calls(lastOp'.steps, "disconnect other") = {}
          /\ conn' = conn
          /\ handles' = handles
          /\ timers' = timers]_vars

----------------------------------------------------------------------------
(* Properties of the registry and the poller together *)

(* pollerMap has a state for the address; connections has a Session for it *)
PollerExists == poller.map # NoRun \/ registry.other.polled

SessionRegistered == registry.holds # "none"

(* C39: when a createConnection or removeConnection call has completed, by *)
(* returning or by throwing, pollerMap has a state for the address exactly *)
(* when connections has a Session for it, and that state belongs to the    *)
(* Session that is registered: the state of the first Session is there     *)
(* only while the first Session is the registered one, the state of a      *)
(* later Session only while a later Session is.                            *)
C39_PollerFollowsRegistry ==
    lastOp.op \in RegistryOps =>
        /\ PollerExists <=> SessionRegistered
        /\ poller.map # NoRun => registry.holds = "first"
        /\ registry.other.polled => registry.holds = "other"

====
